---- MODULE Spec2Model ----
(***************************************************************************)
(* Collection of skeletor (a Backbone derivative): the ordered list        *)
(* `models`, the cached `length`, the index `_byId`, and the operations    *)
(* add / remove / set / reset / sort with the events they emit.            *)
(*                                                                         *)
(* An Entity is known by its cid (1, 2, ...: the order of construction).   *)
(* Its attributes are `id` (NoId when it has none) and `age`.  Ids are     *)
(* numbers, so an id key of `_byId` never equals a cid key ("c1", ...).    *)
(***************************************************************************)
EXTENDS Integers, Sequences, FiniteSets, TLC

\* ---------------------------------------------------------------- bounds
\* The number of Entities ever constructed ...
MaxCid == 2
\* ... and where every call comes with one item.
MaxCidSingle == 3
MaxBatch == 2
MaxId == 2
\* The length of `models`, and the `all` subscriptions the Collection holds on
\* one Entity: both grow without bound once the index has lost an Entity.
MaxLength == 3
MaxListeners == 2
\* The explicit insertion indexes an add is given: -MaxAt .. MaxAt.
MaxAt == 4
\* The number of requests the sync adapter is handed.
MaxFetch == 2

\* The ages of the spec's example: 30, 10 and 5.
ExampleAges == {5, 10, 30}
\* The ages the other calls draw from.
AgeValues == {10, 30}

\* modelId of attributes that carry no id: undefined.
NoId == 0
\* get's result when nothing is found: undefined.
NoModel == 0

Ids == 1..MaxId

\* ----------------------------------------------------------------- items
\* What a caller passes: raw attributes, an Entity (by reference), or, for
\* get and remove, a bare id or cid.
Raw(id, age, valid) == [kind |-> "raw", cid |-> NoModel, id |-> id, age |-> age, valid |-> valid]
Ref(c) == [kind |-> "ref", cid |-> c, id |-> NoId, age |-> 0, valid |-> TRUE]
IdKeyOf(i) == [kind |-> "id", cid |-> NoModel, id |-> i, age |-> 0, valid |-> TRUE]
CidKeyOf(c) == [kind |-> "cid", cid |-> c, id |-> NoId, age |-> 0, valid |-> TRUE]
\* undefined, as at() returns it beyond the ends of models; get finds nothing
\* for it.
Undefined == [kind |-> "undefined", cid |-> NoModel, id |-> NoId, age |-> 0, valid |-> TRUE]

\* Keys of _byId: an Entity's cid, or a resolved id.
CidKey(c) == <<"cid", c>>
IdKey(i) == <<"id", i>>

\* Options of a call.  at and index: <<>> when absent, <<k>> when given.
\* silentGiven: the caller's options carry the key `silent` though it is false.
setOptions == [add |-> TRUE, remove |-> TRUE, merge |-> TRUE,
               silent |-> FALSE, silentGiven |-> FALSE, at |-> <<>>, sort |-> TRUE]
addOptions == [add |-> TRUE, remove |-> FALSE]

\* A handler of the Collection's events: on event `on` it calls `op`
\* (add / remove / set) with `item` on the same Collection.
NoHandler == [on |-> "none", op |-> "none", item |-> Ref(NoModel)]

NoChanges == [added |-> <<>>, removed |-> <<>>, merged |-> <<>>]

\* ------------------------------------------------------------- sequences
SeqToSet(s) == {s[i] : i \in DOMAIN s}
Min(a, b) == IF a < b THEN a ELSE b
Max(a, b) == IF a > b THEN a ELSE b

\* Array.prototype.indexOf, 0-based, -1 when absent.
IndexOf(s, x) ==
    IF \E i \in DOMAIN s : s[i] = x
    THEN (CHOOSE i \in DOMAIN s : s[i] = x /\ \A j \in 1..(i - 1) : s[j] # x) - 1
    ELSE -1

\* Array.prototype.splice(index, 1) for index >= -1: a negative index counts
\* from the end, so -1 takes out the last element.
SpliceOut(s, index) ==
    LET p == IF index < 0 THEN Max(Len(s) + index, 0) ELSE Min(index, Len(s))
    IN  IF p >= Len(s) THEN s
        ELSE [i \in 1..(Len(s) - 1) |-> IF i <= p THEN s[i] ELSE s[i + 1]]

\* splice(array, insert, at): insert spliced into array at index at, clamped.
splice(array, insert, at) ==
    LET p == Min(Max(at, 0), Len(array))
    IN  SubSeq(array, 1, p) \o insert \o SubSeq(array, p + 1, Len(array))

\* ------------------------------------------------------------- the index
Lookup(byId, key) == IF key \in DOMAIN byId THEN byId[key] ELSE NoModel
Delete(byId, key) == [k \in (DOMAIN byId) \ {key} |-> byId[k]]
Put(byId, key, c) == [k \in (DOMAIN byId) \cup {key} |-> IF k = key THEN c ELSE byId[k]]

_isModel(obj) == obj.kind = "ref"

modelId(attrs) == attrs.id

\* The world W: ents (cid -> attributes), models, length, byId, lst (cid ->
\* number of `all` subscriptions of the Collection on that Entity), cmp (the
\* comparator), log (the events delivered so far in this call), oidx
\* (options.index of the running call).
\* get that forgets the lookup through modelId of the attributes.
GetWithoutAttributes(W, obj) ==
    CASE obj.kind = "id" -> Lookup(W.byId, IdKey(obj.id))
      [] obj.kind = "cid" -> Lookup(W.byId, CidKey(obj.cid))
      [] obj.kind = "ref" -> Lookup(W.byId, CidKey(obj.cid))
      [] OTHER -> NoModel

get(W, obj) ==
    LET direct == CASE obj.kind = "id" -> Lookup(W.byId, IdKey(obj.id))
                    [] obj.kind = "cid" -> Lookup(W.byId, CidKey(obj.cid))
                    [] OTHER -> NoModel
        rid == CASE obj.kind = "ref" -> modelId(W.ents[obj.cid])
                 [] obj.kind = "raw" -> modelId(obj)
                 [] OTHER -> NoId
        byAttrs == IF rid = NoId THEN NoModel ELSE Lookup(W.byId, IdKey(rid))
        byCid == IF obj.kind = "ref" THEN Lookup(W.byId, CidKey(obj.cid)) ELSE NoModel
    IN  IF direct # NoModel THEN direct
        ELSE IF byAttrs # NoModel THEN byAttrs
        ELSE byCid

\* An id key of the index is written or deleted only for a resolved id.
PutId(byId, id, c) == IF id # NoId THEN Put(byId, IdKey(id), c) ELSE byId
DeleteId(byId, id) == IF id # NoId THEN Delete(byId, IdKey(id)) ELSE byId

\* _addReference that forgets the id key.
AddReferenceCidOnly(W, c) ==
    [W EXCEPT !.byId = Put(@, CidKey(c), c), !.lst = [@ EXCEPT ![c] = @ + 1]]

_addReference(W, c) ==
    [W EXCEPT !.byId = PutId(Put(@, CidKey(c), c), modelId(W.ents[c]), c),
              !.lst = [@ EXCEPT ![c] = @ + 1]]

_removeReference(W, c) ==
    [W EXCEPT !.byId = DeleteId(Delete(@, CidKey(c)), modelId(W.ents[c])),
              !.lst = [@ EXCEPT ![c] = 0]]

EmptyIndex == [k \in {} |-> NoModel]

_reset(W) == [W EXCEPT !.length = 0, !.models = <<>>, !.byId = EmptyIndex]

\* ---------------------------------------------------------------- events
\* One entry of the log per delivery: src "model" when the Entity's own
\* listeners get it, src "coll" when the Collection's listeners get it.  The
\* entry keeps what a listener can observe at that moment; `changes` is what
\* the event's options carry: the changes of an update, the previousModels of
\* a reset.
Entry(W, src, name, c, changes) ==
    [src |-> src, name |-> name, cid |-> c, index |-> W.oidx, changes |-> changes,
     models |-> W.models, length |-> W.length, byId |-> W.byId, ents |-> W.ents]

Logged(W, src, name, c, changes) ==
    [W EXCEPT !.log = Append(@, Entry(W, src, name, c, changes))]

RECURSIVE set(_, _, _, _)
RECURSIVE remove(_, _, _, _)
RECURSIVE _onModelEvent(_, _, _, _, _)

add(W, models, options, h) ==
    set(W, models, [options EXCEPT !.add = addOptions.add, !.remove = addOptions.remove], h)

\* The call a handler makes: it has its own options object and runs with no
\* further handler.
HandlerCall(W, h) ==
    CASE h.op = "add" -> add(W, <<h.item>>, [setOptions EXCEPT !.merge = FALSE], NoHandler).W
      [] h.op = "set" -> set(W, <<h.item>>, setOptions, NoHandler).W
      [] OTHER -> remove(W, <<h.item>>, setOptions, NoHandler).W

\* A listener of the Collection running: the handler h, when it listens to
\* this event, calls add / remove / set on the Collection.
RunHandler(W, name, h) ==
    IF h.op = "none" \/ h.on # name THEN W
    ELSE [HandlerCall(W, h) EXCEPT !.oidx = W.oidx]

\* Events.trigger on the Collection itself.
trigger(W, name, c, changes, h) ==
    RunHandler(Logged(W, "coll", name, c, changes), name, h)

\* _onModelEvent once for each `all` subscription the Collection held on the
\* Entity when the Entity's trigger began.
RECURSIVE Proxied(_, _, _, _, _, _)
Proxied(W, n, event, c, prev, h) ==
    IF n = 0 THEN W
    ELSE Proxied(_onModelEvent(W, event, c, prev, h), n - 1, event, c, prev, h)

\* Events.trigger on an Entity: its own listeners, then the Collection's
\* _onModelEvent through the `all` subscription.
modelTrigger(W, name, c, prev, h) ==
    Proxied(Logged(W, "model", name, c, NoChanges), W.lst[c], name, c, prev, h)

\* Model.set(attrs, options): attrs that carry no id leave the id alone.
MergedAttrs(old, attrs) ==
    [id |-> IF attrs.id = NoId THEN old.id ELSE attrs.id, age |-> attrs.age]

ChangedAttrs(old, new) ==
    (IF old.id # new.id THEN {"id"} ELSE {}) \cup (IF old.age # new.age THEN {"age"} ELSE {})

\* The `change` event of Model.set, unless silent or nothing changed.
ModelSetFire(W, c, old, silent, h) ==
    IF W.chg[c] # {} /\ ~silent THEN modelTrigger(W, "change", c, old, h) ELSE W

ModelSetTo(W, c, old, new, silent, h) ==
    ModelSetFire([W EXCEPT !.ents = [@ EXCEPT ![c] = new],
                           !.chg = [@ EXCEPT ![c] = ChangedAttrs(old, new)]],
                 c, old, silent, h)

modelSet(W, c, attrs, silent, h) ==
    ModelSetTo(W, c, W.ents[c], MergedAttrs(W.ents[c], attrs), silent, h)

\* Model.hasChanged(attr), after the Entity's last set.
hasChanged(W, c, attr) == attr \in W.chg[c]

\* ------------------------------------------------------------------ sort
\* The comparator is "none" or the name of an attribute ("age").
SortKey(W, c) == W.ents[c].age

\* _.sortBy: stable, ascending by key.
sortBy(W, s) ==
    LET n == Len(s)
        Before(i, j) == SortKey(W, s[i]) < SortKey(W, s[j])
                        \/ (SortKey(W, s[i]) = SortKey(W, s[j]) /\ i < j)
        Pos(i) == Cardinality({j \in 1..n : Before(j, i)}) + 1
    IN  [p \in 1..n |-> s[CHOOSE i \in 1..n : Pos(i) = p]]

SortFire(W, silent, h) ==
    IF ~silent THEN trigger(W, "sort", NoModel, NoChanges, h) ELSE W

\* sort(options) that never asks for the comparator.
SortUnguarded(W, silent, h) ==
    SortFire([W EXCEPT !.models = sortBy(W, W.models)], silent, h)

\* sort(options): "Cannot sort a set without a comparator" is thrown to the
\* caller (W.threw) when there is none.
sort(W, silent, h) ==
    IF W.cmp = "none" THEN [W EXCEPT !.threw = TRUE]
    ELSE SortFire([W EXCEPT !.models = sortBy(W, W.models)], silent, h)

\* ---------------------------------------------------------------- remove
\* The splice and the purge of the keys without `this.length--`.
UnlinkKeepLength(W, c) ==
    [W EXCEPT !.models = SpliceOut(@, IndexOf(W.models, c)),
              !.byId = DeleteId(Delete(@, CidKey(c)), modelId(W.ents[c]))]

\* The part of _removeModels before the `remove` event: the Entity leaves
\* models, length drops, and both keys leave the index.
Unlink(W, c) ==
    [W EXCEPT !.models = SpliceOut(@, IndexOf(W.models, c)),
              !.length = @ - 1,
              !.byId = DeleteId(Delete(@, CidKey(c)), modelId(W.ents[c]))]

\* The `remove` event of _removeModels, carrying the index the Entity had.
RemoveFire(W, index, c, silent, h) ==
    IF ~silent THEN modelTrigger([W EXCEPT !.oidx = <<index>>], "remove", c, W.ents[c], h)
    ELSE W

\* A round that fires `remove` first and takes the Entity out afterwards.
RemoveOneEventFirst(W, c, silent, h) ==
    _removeReference(Unlink(RemoveFire(W, IndexOf(W.models, c), c, silent, h), c), c)

\* One round of the loop of _removeModels, for a model that get found.
RemoveOne(W, c, silent, h) ==
    _removeReference(RemoveFire(Unlink(W, c), IndexOf(W.models, c), c, silent, h), c)

\* _removeModels(models, options): [W, removed].
RECURSIVE _removeModels(_, _, _, _, _)
\* A round that forgets `removed.push(model)`.
RemoveNextUnrecorded(W, model, rest, silent, removed, h) ==
    IF model = NoModel THEN _removeModels(W, rest, silent, removed, h)
    ELSE _removeModels(RemoveOne(W, model, silent, h), rest, silent, removed, h)

RemoveNext(W, model, rest, silent, removed, h) ==
    IF model = NoModel THEN _removeModels(W, rest, silent, removed, h)
    ELSE _removeModels(RemoveOne(W, model, silent, h), rest, silent,
                       Append(removed, model), h)

_removeModels(W, models, silent, removed, h) ==
    IF models = <<>> THEN [W |-> W, removed |-> removed]
    ELSE RemoveNext(W, get(W, Head(models)), Tail(models), silent, removed, h)

\* The `update` event of remove, fired also when nothing was removed.
RemoveUpdateAlways(R, options, h) ==
    [W |-> IF ~options.silent
           THEN trigger(R.W, "update", NoModel,
                        [added |-> <<>>, merged |-> <<>>, removed |-> R.removed], h)
           ELSE R.W,
     ret |-> R.removed]

\* The `update` event of remove.
RemoveUpdate(R, options, h) ==
    [W |-> IF ~options.silent /\ R.removed # <<>>
           THEN trigger(R.W, "update", NoModel,
                        [added |-> <<>>, merged |-> <<>>, removed |-> R.removed], h)
           ELSE R.W,
     ret |-> R.removed]

remove(W, models, options, h) ==
    RemoveUpdate(_removeModels(W, models, options.silent, <<>>, h), options, h)

\* "return singular ? removed[0] : removed", a single value given as <<value>>.
RemoveReturn(singular, removed) ==
    IF ~singular THEN [i \in DOMAIN removed |-> Ref(removed[i])]
    ELSE IF removed = <<>> THEN <<Undefined>>
    ELSE <<Ref(removed[1])>>

\* at(index): models[index], a negative index counted from length.
modelAt(W, index) ==
    IF (IF index < 0 THEN index + W.length ELSE index) + 1 \in DOMAIN W.models
    THEN W.models[(IF index < 0 THEN index + W.length ELSE index) + 1]
    ELSE NoModel

\* The model pop and shift pass on to remove: an Entity or undefined.
Found(model) == IF model = NoModel THEN Undefined ELSE Ref(model)

pop(W, options, h) == remove(W, <<Found(modelAt(W, W.length - 1))>>, options, h)

shift(W, options, h) == remove(W, <<Found(modelAt(W, 0))>>, options, h)

\* ------------------------------------------------------------------- set
\* _prepareModel(attrs, options): [W, model]; model is NoModel when the
\* construction reports a validation error.
\* _prepareModel that never looks at validationError.
PrepareModelUnchecked(W, attrs, h) ==
    IF _isModel(attrs) THEN [W |-> W, model |-> attrs.cid]
    ELSE [W |-> [W EXCEPT !.ents = Append(@, [id |-> attrs.id, age |-> attrs.age]),
                          !.lst = Append(@, 0), !.chg = Append(@, {})],
          model |-> Len(W.ents) + 1]

_prepareModel(W, attrs, h) ==
    IF _isModel(attrs) THEN [W |-> W, model |-> attrs.cid]
    ELSE IF attrs.valid
         THEN [W |-> [W EXCEPT !.ents = Append(@, [id |-> attrs.id, age |-> attrs.age]),
                               !.lst = Append(@, 0), !.chg = Append(@, {})],
               model |-> Len(W.ents) + 1]
         ELSE [W |-> trigger(W, "invalid", NoModel, NoChanges, h), model |-> NoModel]

\* options.at as set resolves it against the length at the start of the call.
ResolveAt(at, length) ==
    IF at = <<>> THEN <<>>
    ELSE IF at[1] > length THEN <<length>>
    ELSE IF at[1] < 0 THEN <<at[1] + length + 1>>
    ELSE at

Sortable(W, options) == W.cmp # "none" /\ options.at = <<>> /\ options.sort

\* The accumulator A of set's first loop: W, set, toAdd, toMerge, sort, and
\* out (the models array, whose entries the loop replaces).
SetKept(A, existing) ==
    [A EXCEPT !.set = IF existing \notin SeqToSet(A.set) THEN Append(@, existing) ELSE @,
              !.out = Append(@, Ref(existing))]

\* A merge that never asks whether the sort attribute changed.
SetMergedKeepSort(A, existing, W1, sortable) ==
    SetKept([A EXCEPT !.W = W1, !.toMerge = Append(@, existing)], existing)

SetMerged(A, existing, W1, sortable) ==
    SetKept([A EXCEPT !.W = W1,
                      !.toMerge = Append(@, existing),
                      !.sort = IF sortable /\ ~A.sort THEN hasChanged(W1, existing, W1.cmp)
                               ELSE A.sort],
            existing)

SetExisting(A, model, existing, options, sortable, h) ==
    IF options.merge /\ ~(_isModel(model) /\ model.cid = existing)
    THEN SetMerged(A, existing,
                   modelSet(A.W, existing,
                            IF _isModel(model) THEN A.W.ents[model.cid] ELSE model,
                            options.silent, h),
                   sortable)
    ELSE SetKept(A, existing)

SetPrepared(A, model, P) ==
    IF P.model # NoModel
    THEN [A EXCEPT !.W = _addReference(P.W, P.model),
                   !.toAdd = Append(@, P.model),
                   !.set = Append(@, P.model),
                   !.out = Append(@, Ref(P.model))]
    ELSE [A EXCEPT !.W = P.W, !.out = Append(@, [model EXCEPT !.kind = "false"])]

SetNew(A, model, h) == SetPrepared(A, model, _prepareModel(A.W, model, h))

SetItem(A, model, existing, options, sortable, h) ==
    IF existing # NoModel THEN SetExisting(A, model, existing, options, sortable, h)
    ELSE IF options.add THEN SetNew(A, model, h)
    ELSE [A EXCEPT !.out = Append(@, model)]

RECURSIVE SetLoop(_, _, _, _, _)
SetLoop(A, models, options, sortable, h) ==
    IF models = <<>> THEN A
    ELSE SetLoop(SetItem(A, Head(models), get(A.W, Head(models)), options, sortable, h),
                 Tail(models), options, sortable, h)

\* "Remove stale models": those of models[0 .. length-1] that are not kept.
Stale(W, kept) ==
    SelectSeq(SubSeq(W.models, 1, Min(W.length, Len(W.models))),
              LAMBDA c : c \notin SeqToSet(kept))

Refs(s) == [i \in DOMAIN s |-> Ref(s[i])]

SetRemoved(W, toRemove, silent, h) ==
    IF toRemove # <<>> THEN _removeModels(W, Refs(toRemove), silent, <<>>, h).W ELSE W

\* The splice of the new models alone, without the full replace.
SetSpliceOnly(W, A, at, options, sortable) ==
    IF A.toAdd # <<>>
    THEN [W |-> [W EXCEPT !.models = splice(@, A.toAdd, IF at = <<>> THEN W.length ELSE at[1]),
                          !.length = Len(W.models) + Len(A.toAdd)],
          sort |-> A.sort \/ sortable,
          orderChanged |-> FALSE]
    ELSE [W |-> W, sort |-> A.sort, orderChanged |-> FALSE]

\* "See if sorting is needed, update length and splice in new models":
\* [W, sort, orderChanged].
SetSplice(W, A, at, options, sortable) ==
    IF A.set # <<>> /\ ~sortable /\ options.add /\ options.remove
    THEN [W |-> [W EXCEPT !.models = A.set, !.length = Len(A.set)],
          sort |-> A.sort,
          orderChanged |-> W.length # Len(A.set)
                           \/ \E i \in DOMAIN W.models :
                                  i > Len(A.set) \/ W.models[i] # A.set[i]]
    ELSE IF A.toAdd # <<>>
    THEN [W |-> [W EXCEPT !.models = splice(@, A.toAdd, IF at = <<>> THEN W.length ELSE at[1]),
                          !.length = Len(W.models) + Len(A.toAdd)],
          sort |-> A.sort \/ sortable,
          orderChanged |-> FALSE]
    ELSE [W |-> W, sort |-> A.sort, orderChanged |-> FALSE]

\* set without its silent sort.
SetSortedNever(S, h) == S.W

\* "Silently sort the collection if appropriate."
SetSorted(S, h) == IF S.sort THEN sort(S.W, TRUE, h) ELSE S.W

\* The `add` events of set, one for each model of toAdd, in order.
RECURSIVE FireAdds(_, _, _, _, _)
FireAdds(W, toAdd, i, at, h) ==
    IF i > Len(toAdd) THEN W
    ELSE FireAdds(modelTrigger(IF at # <<>> THEN [W EXCEPT !.oidx = <<at[1] + i - 1>>] ELSE W,
                               "add", toAdd[i], W.ents[toAdd[i]], h),
                  toAdd, i + 1, at, h)

FireSort(W, sorted, h) ==
    IF sorted THEN trigger(W, "sort", NoModel, NoChanges, h) ELSE W

FireUpdate(W, toAdd, toRemove, toMerge, h) ==
    IF toAdd # <<>> \/ toRemove # <<>> \/ toMerge # <<>>
    THEN trigger(W, "update", NoModel,
                 [added |-> toAdd, removed |-> toRemove, merged |-> toMerge], h)
    ELSE W

\* The events of set with `sort` ahead of the `add` events.
SetFireSortFirst(W, toAdd, toRemove, toMerge, sorted, at, silent, h) ==
    IF silent THEN W
    ELSE FireUpdate(FireAdds(FireSort(W, sorted, h), toAdd, 1, at, h),
                    toAdd, toRemove, toMerge, h)

\* "Unless silenced, it's time to fire all appropriate add/sort/update events."
SetFire(W, toAdd, toRemove, toMerge, sorted, at, silent, h) ==
    IF silent THEN W
    ELSE FireUpdate(FireSort(FireAdds(W, toAdd, 1, at, h), sorted, h),
                    toAdd, toRemove, toMerge, h)

SetResult(A, toRemove, S, W) ==
    [W |-> W, ret |-> A.out, added |-> A.toAdd, removed |-> toRemove,
     merged |-> A.toMerge, sorted |-> S.sort, orderChanged |-> S.orderChanged]

SetFinish(A, toRemove, S, at, options, h) ==
    SetResult(A, toRemove, S,
              SetFire(SetSorted(S, h), A.toAdd, toRemove, A.toMerge,
                      S.sort \/ S.orderChanged, at, options.silent, h))

SetStructure(A, toRemove, at, options, sortable, h) ==
    SetFinish(A, toRemove,
              SetSplice(SetRemoved(A.W, toRemove, options.silent, h), A, at, options, sortable),
              at, options, h)

SetAfterLoop(A, at, options, sortable, h) ==
    SetStructure(A, IF options.remove THEN Stale(A.W, A.set) ELSE <<>>,
                 at, options, sortable, h)

set(W, models, options, h) ==
    SetAfterLoop(SetLoop([W |-> W, set |-> <<>>, toAdd |-> <<>>, toMerge |-> <<>>,
                          sort |-> FALSE, out |-> <<>>],
                         models, options, Sortable(W, options), h),
                 ResolveAt(options.at, W.length), options, Sortable(W, options), h)

\* ----------------------------------------------------------------- reset
RECURSIVE DropReferences(_, _)
DropReferences(W, ms) ==
    IF ms = <<>> THEN W ELSE DropReferences(_removeReference(W, Head(ms)), Tail(ms))

\* The `reset` event, its options carrying previousModels.
ResetFire(R, previousModels, options, h) ==
    [W |-> IF ~options.silent
           THEN trigger(R.W, "reset", NoModel, [previousModels |-> previousModels], h)
           ELSE R.W,
     ret |-> R.ret]

\* _.extend({silent: true}, options): the caller's `silent` wins when the
\* options carry one.
ResetAddOptions(options) ==
    IF options.silentGiven THEN options ELSE [options EXCEPT !.silent = TRUE]

reset(W, models, options, h) ==
    ResetFire(add(_reset(DropReferences(W, W.models)), models, ResetAddOptions(options), h),
              W.models, options, h)

\* --------------------------------------------------------- _onModelEvent
\* "Sets need to update their indexes when models change ids."
Reindexed(W, event, c, prev) ==
    IF event = "change" /\ modelId(prev) # modelId(W.ents[c])
    THEN [W EXCEPT !.byId = PutId(DeleteId(@, modelId(prev)), modelId(W.ents[c]), c)]
    ELSE W

\* _onModelEvent that only proxies: a destroy removes nothing.
OnModelEventProxyOnly(W, event, c, prev, h) ==
    trigger(Reindexed(W, event, c, prev), event, c, NoChanges, h)

_onModelEvent(W, event, c, prev, h) ==
    trigger(Reindexed(IF event = "destroy" THEN remove(W, <<Ref(c)>>, setOptions, h).W ELSE W,
                      event, c, prev),
            event, c, NoChanges, h)

\* ------------------------------------------------------ a second Collection
\* Another Collection that may hold the same Entities: new Collection().
NoOther == [models |-> <<>>, length |-> 0, byId |-> EmptyIndex, lst |-> <<>>]

\* The world of the Collection o among the Entities of W, nothing delivered
\* to its listeners yet.
OtherWorld(W, o) ==
    [W EXCEPT !.models = o.models, !.length = o.length, !.byId = o.byId,
              !.lst = [c \in DOMAIN W.ents |-> IF c \in DOMAIN o.lst THEN o.lst[c] ELSE 0],
              !.cmp = "none", !.log = <<>>, !.oidx = <<>>]

OtherOf(W) == [models |-> W.models, length |-> W.length, byId |-> W.byId, lst |-> W.lst]

\* _onModelEvent that proxies every event, whichever Collection it names.
OnModelEventAnyCollection(W, same, event, c, prev, h) ==
    _onModelEvent(W, event, c, prev, h)

\* _onModelEvent for an event that names a Collection (same: it is this one):
\* "add" and "remove" events that originate in other collections are ignored.
OnModelEventOf(W, same, event, c, prev, h) ==
    IF event \in {"add", "remove"} /\ ~same THEN W
    ELSE _onModelEvent(W, event, c, prev, h)

\* A Collection (world W) hearing the events the Entities emitted during a
\* call on another Collection: each event of an Entity it is subscribed to
\* reaches its _onModelEvent.
RECURSIVE Overheard(_, _)
Overheard(W, log) ==
    IF log = <<>> THEN W
    ELSE Overheard(IF Head(log).src = "model" /\ W.lst[Head(log).cid] > 0
                   THEN OnModelEventOf(W, FALSE, Head(log).name, Head(log).cid,
                                       Head(log).ents[Head(log).cid], NoHandler)
                   ELSE W,
                   Tail(log))

\* ----------------------------------------------------- toJSON and inputs
\* toJSON(): the attributes of each model, in order; the cid is not part of it.
toJSON(W) == [i \in DOMAIN W.models |->
                 Raw(W.ents[W.models[i]].id, W.ents[W.models[i]].age, TRUE)]

ValidItems == {Raw(i, a, TRUE) : i \in {NoId} \cup Ids, a \in AgeValues}
\* An item whose construction reports a validation error.
FirstAge == CHOOSE x \in AgeValues : \A y \in AgeValues : x <= y
InvalidItems == {Raw(NoId, FirstAge, FALSE)}
RefItems(n) == {Ref(c) : c \in 1..n}
Items(n) == ValidItems \cup InvalidItems \cup RefItems(n)
Keys(n) == RefItems(n) \cup {IdKeyOf(i) : i \in Ids} \cup {CidKeyOf(c) : c \in 1..n}

Batches(S) == UNION {[1..k -> S] : k \in 0..MaxBatch}

\* at and sort as one choice: default, an explicit index, or sort:false.
PlaceChoices == {[at |-> <<>>, sort |-> TRUE], [at |-> <<0>>, sort |-> TRUE],
                 [at |-> <<>>, sort |-> FALSE]}

Options(adding, removing, merge, silent, place) ==
    [add |-> adding, remove |-> removing, merge |-> merge, silent |-> silent,
     silentGiven |-> FALSE,
     at |-> place.at, sort |-> place.sort]

Plain(options) == options.at = <<>> /\ options.sort /\ ~options.silent

\* Every option of set, with silent only beside the default at and sort.
SetOptionSet ==
    {o \in {Options(a, r, m, s, p) : a \in BOOLEAN, r \in BOOLEAN, m \in BOOLEAN,
                                     s \in BOOLEAN, p \in PlaceChoices} :
        o.silent => (o.at = <<>> /\ o.sort)}

\* The inputs of a call: a batch with the options; a batch of more than one
\* item comes with the default at, sort and silent.
Inputs(batches, optionSet) ==
    {[items |-> b, options |-> o] : b \in batches, o \in optionSet}
    \ {[items |-> b, options |-> o] :
           b \in {x \in batches : Len(x) > 1}, o \in {y \in optionSet : ~Plain(y)}}

SetInputs(n) == Inputs(Batches(Items(n)), SetOptionSet)
AddInputs(n) == Inputs(Batches(Items(n)), {o \in SetOptionSet : o.add /\ ~o.remove})
RemoveInputs(n) ==
    Inputs(Batches(Keys(n)), {[setOptions EXCEPT !.silent = s] : s \in BOOLEAN})
ResetInputs(n) ==
    Inputs(Batches(Items(n)),
           {[setOptions EXCEPT !.merge = FALSE, !.silent = s] : s \in BOOLEAN})

\* ------------------------------------------------------ CollectionIterator
ITERATOR_VALUES == 1
ITERATOR_KEYS == 2
ITERATOR_KEYSVALUES == 3
\* No iterator has been made yet.
NoKind == 0

\* The result of next(): value is <<>> for undefined; threw when reading the
\* attributes of an absent model raised a TypeError.
Result(value, done) == [value |-> value, done |-> done, threw |-> FALSE]
NoResult == Result(<<>>, FALSE)
Thrown == [value |-> <<>>, done |-> FALSE, threw |-> TRUE]

\* The iterator: _kind, _collection (attached while it is set), _index, and
\* what its caller has seen of it: the last result, whether a done result had
\* come before the last call, the advances made before the last call and in
\* all, the Collection's length and models at the last call, and whether
\* models and length are as they were when the iterator was made.
CollectionIterator(kind) ==
    [kind |-> kind, attached |-> TRUE, index |-> 0, res |-> NoResult, returned |-> FALSE,
     wasDone |-> FALSE, before |-> 0, advances |-> 0, seen |-> 0, list |-> <<>>,
     clean |-> TRUE]

NoIterator == [CollectionIterator(NoKind) EXCEPT !.attached = FALSE]

\* "Construct a value depending on what kind of values should be iterated."
IteratorValue(W, kind, model) ==
    IF kind = ITERATOR_VALUES THEN Result(<<model>>, FALSE)
    ELSE IF model = NoModel THEN Thrown
    ELSE IF kind = ITERATOR_KEYS THEN Result(<<modelId(W.ents[model])>>, FALSE)
    ELSE Result(<<modelId(W.ents[model]), model>>, FALSE)

\* next() that keeps the reference to the collection when exhausted.
NextKeepsCollection(W, it) ==
    IF it.attached /\ it.index < W.length
    THEN [it EXCEPT !.index = @ + 1,
                    !.res = IteratorValue(W, it.kind, modelAt(W, it.index))]
    ELSE [it EXCEPT !.res = Result(<<>>, TRUE)]

\* next() that advances _index before it reads the model.
NextReadsAfterAdvance(W, it) ==
    IF it.attached /\ it.index < W.length
    THEN [it EXCEPT !.index = @ + 1,
                    !.res = IteratorValue(W, it.kind, modelAt(W, it.index + 1))]
    ELSE [it EXCEPT !.attached = FALSE, !.res = Result(<<>>, TRUE)]

next(W, it) ==
    IF it.attached /\ it.index < W.length
    THEN [it EXCEPT !.index = @ + 1,
                    !.res = IteratorValue(W, it.kind, modelAt(W, it.index))]
    ELSE [it EXCEPT !.attached = FALSE, !.res = Result(<<>>, TRUE)]

\* What the caller has seen after a call of next() that left the iterator as
\* `now`.
Seen(W, it, now) ==
    [now EXCEPT !.returned = TRUE,
                !.wasDone = it.wasDone \/ it.res.done,
                !.before = it.advances,
                !.advances = IF now.res.done \/ now.res.threw THEN @ ELSE @ + 1,
                !.seen = W.length,
                !.list = W.models]

\* ----------------------------------------------------------------- fetch
\* The sync adapter as the Collection sees it: net.sent counts the calls of
\* sync, net.inflight holds the requests not yet answered, in the order they
\* were issued, and net.resolved the numbers of those answered with success.
NoRequests == [sent |-> 0, inflight |-> <<>>, resolved |-> <<>>]

Request(num, method, options) ==
    [num |-> num, method |-> method, target |-> "collection", reset |-> options.reset]

\* this.sync(method, this, options): the adapter takes the request.
sync(net, method, options) ==
    [net EXCEPT !.sent = @ + 1, !.inflight = Append(@, Request(net.sent + 1, method, options))]

\* fetch(options): "return promise ? promise : this.sync('read', this, options)".
fetch(net, options) == IF options.promise THEN net ELSE sync(net, "read", options)

\* A success callback that adds the response to what the Collection holds.
FetchSuccessAdds(W, req, resp, h) ==
    trigger(add(W, resp, setOptions, h).W, "sync", NoModel, NoChanges, h)

\* options.success(resp) as fetch wraps it: reset or set with the response,
\* the caller's success callback, then the `sync` event.
FetchSuccess(W, req, resp, h) ==
    trigger((IF req.reset THEN reset(W, resp, setOptions, h)
             ELSE set(W, resp, setOptions, h)).W,
            "sync", NoModel, NoChanges, h)

\* options.error(resp) as wrapError wraps it: the caller's error callback,
\* then the `error` event.
wrapError(W, h) == trigger(W, "error", NoModel, NoChanges, h)

\* The adapter has answered the i-th request in flight.
Answered(net, i, ok) ==
    [net EXCEPT !.inflight = SubSeq(@, 1, i - 1) \o SubSeq(@, i + 1, Len(@)),
                !.resolved = IF ok THEN Append(@, net.inflight[i].num) ELSE @]

\* ---------------------------------------------------------------- create
\* `false`, as create returns it.
False == [Undefined EXCEPT !.kind = "false"]

\* The request of model.save(null, options) for the Entity c.
SaveRequest(num, c, wait) ==
    [num |-> num, method |-> "create", target |-> "model", reset |-> FALSE,
     cid |-> c, wait |-> wait]

\* model.save(null, options): the Entity's request goes to the adapter.
save(net, c, wait) ==
    [net EXCEPT !.sent = @ + 1, !.inflight = Append(@, SaveRequest(net.sent + 1, c, wait))]

\* create that adds the Entity at once, wait or not.
CreatedAtOnce(P, net, wait, options, h) ==
    IF P.model = NoModel THEN [W |-> P.W, net |-> net, ret |-> <<False>>]
    ELSE [W |-> add(P.W, <<Ref(P.model)>>, options, h).W,
          net |-> save(net, P.model, wait),
          ret |-> <<Ref(P.model)>>]

\* create after _prepareModel (P): [W, net, ret].
Created(P, net, wait, options, h) ==
    IF P.model = NoModel THEN [W |-> P.W, net |-> net, ret |-> <<False>>]
    ELSE [W |-> IF ~wait THEN add(P.W, <<Ref(P.model)>>, options, h).W ELSE P.W,
          net |-> save(net, P.model, wait),
          ret |-> <<Ref(P.model)>>]

create(W, net, model, wait, options, h) ==
    Created(_prepareModel(W, model, h), net, wait, options, h)

\* options.success as create wraps it: "if (wait) collection.add(m, callbackOpts)".
CreateSuccess(W, req, options, h) ==
    IF req.wait THEN add(W, <<Ref(req.cid)>>, options, h).W ELSE W

\* ----------------------------------------------------------------- state
VARIABLES
    ents,        \* cid -> attributes [id, age] of every Entity constructed
    models,      \* Collection.models: cids in order
    length,      \* Collection.length
    byId,        \* Collection._byId
    lst,         \* cid -> number of `all` subscriptions of the Collection
    comparator,  \* Collection.comparator: "none" or "age"
    iter,        \* the CollectionIterator made last, and what its caller saw
    net,         \* the sync adapter: calls counted, requests in flight
    other,       \* a second Collection: its models, length, _byId, subscriptions
    last         \* the call that just ran: its input, events and result

vars == <<ents, models, length, byId, lst, comparator, iter, net, other, last>>

Idle == [op |-> "idle", items |-> <<>>, options |-> setOptions, handler |-> NoHandler,
         log |-> <<>>, ret |-> <<>>, added |-> <<>>, removed |-> <<>>, merged |-> <<>>,
         sorted |-> FALSE, threw |-> FALSE, heard |-> <<>>, wait |-> FALSE,
         pre |-> [models |-> <<>>, length |-> 0, byId |-> EmptyIndex, ents |-> <<>>,
                  lst |-> <<>>, sent |-> 0, other |-> NoOther]]

World == [ents |-> ents, models |-> models, length |-> length, byId |-> byId,
          lst |-> lst, cmp |-> comparator, log |-> <<>>, oidx |-> <<>>,
          chg |-> [c \in DOMAIN ents |-> {}], threw |-> FALSE]

Pre == [models |-> models, length |-> length, byId |-> byId, ents |-> ents,
        lst |-> lst, sent |-> net.sent, other |-> other]

\* The state after a call that ended in world W; cap bounds the number of
\* Entities ever constructed.
Settled(W, info, cap) ==
    /\ Len(W.ents) <= cap
    /\ Len(W.models) <= MaxLength
    /\ \A c \in DOMAIN W.lst : W.lst[c] <= MaxListeners
    /\ ents' = W.ents
    /\ models' = W.models
    /\ length' = W.length
    /\ byId' = W.byId
    /\ lst' = W.lst
    /\ comparator' = comparator
    /\ iter' = IF iter.kind = NoKind THEN iter
               ELSE [iter EXCEPT !.clean = @ /\ W.models = models /\ W.length = length]
    /\ last' = [info EXCEPT !.log = W.log, !.pre = Pre, !.threw = W.threw]

\* The state after a call on this Collection that no other Collection hears of.
Applied(W, info, cap) == Settled(W, info, cap) /\ other' = other

\* The state after a call that leaves the sync adapter alone.
Becomes(W, info, cap) == Applied(W, info, cap) /\ net' = net

\* What a call leaves in `last`.
Info(op, in, h) ==
    [Idle EXCEPT !.op = op, !.items = in.items, !.options = in.options, !.handler = h]

\* The state after a call of set (or add) with result R.
SetDone(op, in, h, R, cap) ==
    Becomes(R.W, [Info(op, in, h) EXCEPT !.ret = R.ret, !.added = R.added,
                                         !.removed = R.removed, !.merged = R.merged,
                                         !.sorted = R.sorted \/ R.orderChanged], cap)

RemoveDone(in, h, R, cap) ==
    Becomes(R.W, [Info("remove", in, h) EXCEPT !.ret = RemoveReturn(FALSE, R.ret),
                                               !.removed = R.ret], cap)

\* The state after remove(model), pop() or shift(): a singular remove.
RemoveOneDone(op, in, h, R, cap) ==
    Becomes(R.W, [Info(op, in, h) EXCEPT !.ret = RemoveReturn(TRUE, R.ret),
                                         !.removed = R.ret], cap)

ResetDone(in, h, R, cap) ==
    Becomes(R.W, [Info("reset", in, h) EXCEPT !.ret = R.ret], cap)

\* new Collection(models, {comparator}): _reset, then reset(models, {silent: true}).
Constructed(cmp, items) ==
    reset([ents |-> <<>>, models |-> <<>>, length |-> 0, byId |-> EmptyIndex,
           lst |-> <<>>, cmp |-> cmp, log |-> <<>>, oidx |-> <<>>, chg |-> <<>>,
           threw |-> FALSE],
          items, [setOptions EXCEPT !.merge = FALSE, !.silent = TRUE], NoHandler).W

InitFrom(W) ==
    /\ ents = W.ents
    /\ models = W.models
    /\ length = W.length
    /\ byId = W.byId
    /\ lst = W.lst
    /\ comparator = W.cmp
    /\ iter = NoIterator
    /\ net = NoRequests
    /\ other = NoOther
    /\ last = Idle

InitWith(cmps, batches) ==
    \E cmp \in cmps, items \in batches : InitFrom(Constructed(cmp, items))

Init == InitWith({"none", "age"}, Batches(ValidItems))

\* ---------------------------------------------------------------- actions
\* Each call is made with a handler h of the Collection's events (NoHandler:
\* the listeners only look) and an input of the set `inputs`.
CallAdd(h, inputs, cap) ==
    /\ last.op = "idle"
    /\ \E in \in inputs : SetDone("add", in, h, add(World, in.items, in.options, h), cap)

CallSet(h, inputs, cap) ==
    /\ last.op = "idle"
    /\ \E in \in inputs : SetDone("set", in, h, set(World, in.items, in.options, h), cap)

\* collection.set(collection.toJSON())
CallSetJSON(h, cap) ==
    /\ last.op = "idle"
    /\ SetDone("setJSON", [items |-> toJSON(World), options |-> setOptions], h,
               set(World, toJSON(World), setOptions, h), cap)

CallRemove(h, inputs, cap) ==
    /\ last.op = "idle"
    /\ \E in \in inputs : RemoveDone(in, h, remove(World, in.items, in.options, h), cap)

\* remove(model, options) with one model, id or cid, not in a list.
CallRemoveOne(h, inputs, cap) ==
    /\ last.op = "idle"
    /\ \E in \in inputs :
          RemoveOneDone("removeOne", in, h, remove(World, in.items, in.options, h), cap)

SilentOrNot == {[setOptions EXCEPT !.silent = s] : s \in BOOLEAN}

CallPop(h, cap) ==
    /\ last.op = "idle"
    /\ \E o \in SilentOrNot :
          RemoveOneDone("pop", [items |-> <<Found(modelAt(World, length - 1))>>, options |-> o], h,
                        pop(World, o, h), cap)

CallShift(h, cap) ==
    /\ last.op = "idle"
    /\ \E o \in SilentOrNot :
          RemoveOneDone("shift", [items |-> <<Found(modelAt(World, 0))>>, options |-> o], h,
                        shift(World, o, h), cap)

CallReset(h, inputs, cap) ==
    /\ last.op = "idle"
    /\ \E in \in inputs : ResetDone(in, h, reset(World, in.items, in.options, h), cap)

CallSort(h, cap) ==
    /\ last.op = "idle"
    /\ \E silent \in BOOLEAN :
          Becomes(sort(World, silent, h),
                  Info("sort", [items |-> <<>>,
                                options |-> [setOptions EXCEPT !.silent = silent]], h),
                  cap)

\* An Entity emits `destroy` (Model.destroy).
Destroy(h, cap) ==
    /\ last.op = "idle"
    /\ \E c \in DOMAIN ents :
          Becomes(modelTrigger(World, "destroy", c, ents[c], h),
                  Info("destroy", [items |-> <<Ref(c)>>, options |-> setOptions], h),
                  cap)

\* An Entity's attributes are set from outside the Collection (Model.set),
\* its `change` event not silenced.
EntitySet(h, attrSet, cap) ==
    /\ last.op = "idle"
    /\ \E c \in DOMAIN ents, attrs \in attrSet :
          Becomes(modelSet(World, c, attrs, FALSE, h),
                  Info("modelSet", [items |-> <<Ref(c), attrs>>, options |-> setOptions], h),
                  cap)

\* The caller has looked at the call's events and result.
Return ==
    /\ last.op # "idle"
    /\ last' = Idle
    /\ UNCHANGED <<ents, models, length, byId, lst, comparator, iter, net, other>>

\* The Collection's own operations, the listeners only looking.
Next ==
    \/ CallAdd(NoHandler, AddInputs(Len(ents)), MaxCid)
    \/ CallSet(NoHandler, SetInputs(Len(ents)), MaxCid)
    \/ CallSetJSON(NoHandler, MaxCid)
    \/ CallRemove(NoHandler, RemoveInputs(Len(ents)), MaxCid)
    \/ CallReset(NoHandler, ResetInputs(Len(ents)), MaxCid)
    \/ CallSort(NoHandler, MaxCid)
    \/ Destroy(NoHandler, MaxCid)
    \/ Return

Spec == Init /\ [][Next]_vars

\* ------------------------------------------- Entities changing their ids
\* One item per call, the default options but for merge; no comparator.
Singles(S) == {<<x>> : x \in S}
MergeChoices == {[setOptions EXCEPT !.merge = m] : m \in BOOLEAN}
ChangeItems(n) == {Raw(i, FirstAge, TRUE) : i \in Ids} \cup RefItems(n)
ChangeAttrs == {[id |-> i, age |-> FirstAge] : i \in Ids}

InitChange == InitWith({"none"}, Batches({Raw(i, FirstAge, TRUE) : i \in Ids}))

NextChange ==
    \/ CallAdd(NoHandler, Inputs(Singles(ChangeItems(Len(ents))), MergeChoices), MaxCidSingle)
    \/ CallSet(NoHandler, Inputs(Singles(ChangeItems(Len(ents))), MergeChoices), MaxCidSingle)
    \/ CallRemove(NoHandler, Inputs(Singles(Keys(Len(ents))), {setOptions}), MaxCidSingle)
    \/ CallReset(NoHandler, Inputs(Singles(ChangeItems(Len(ents))), {setOptions}), MaxCidSingle)
    \/ EntitySet(NoHandler, ChangeAttrs, MaxCidSingle)
    \/ Return

SpecChange == InitChange /\ [][NextChange]_vars

\* ------------------------------------------------- order under a comparator
\* A Collection with comparator 'age'; one item per call, with or without an
\* id, at the default place, at index 0, or with sort:false.
OrderItems(n) == {Raw(i, a, TRUE) : i \in {NoId, MaxId}, a \in AgeValues} \cup RefItems(n)
OrderOptions == {o \in SetOptionSet : o.add /\ ~o.silent}

InitOrder == InitWith({"age"}, Batches(ValidItems))

NextOrder ==
    \/ CallAdd(NoHandler, Inputs(Singles(OrderItems(Len(ents))),
                                 {o \in OrderOptions : ~o.remove}), MaxCidSingle)
    \/ CallSet(NoHandler, Inputs(Singles(OrderItems(Len(ents))), OrderOptions), MaxCidSingle)
    \/ CallRemove(NoHandler, Inputs(Singles(RefItems(Len(ents))), {setOptions}), MaxCidSingle)
    \/ CallReset(NoHandler, Inputs(Singles(OrderItems(Len(ents))), {setOptions}), MaxCidSingle)
    \/ Return

SpecOrder == InitOrder /\ [][NextOrder]_vars

\* ------------------------------------------------- handlers that mutate
\* A handler listens to one event and calls add, remove or set with one raw
\* item, of the last id (remove finds the Entity by the item's id).
HandlerEvents == {"add", "remove", "update", "sort", "invalid", "change"}
Handlers == {[on |-> e, op |-> o, item |-> Raw(MaxId, FirstAge, TRUE)] :
                e \in HandlerEvents, o \in {"add", "remove", "set"}}

NextReentrant ==
    \/ \E h \in Handlers :
          \/ CallAdd(h, Inputs(Singles(Items(Len(ents))), MergeChoices), MaxCid)
          \/ CallSet(h, Inputs(Singles(Items(Len(ents))), MergeChoices), MaxCid)
          \/ CallRemove(h, Inputs(Singles(Keys(Len(ents))), {setOptions}), MaxCid)
          \/ CallReset(h, Inputs(Singles(Items(Len(ents))), {setOptions}), MaxCid)
    \/ Return

SpecReentrant == Init /\ [][NextReentrant]_vars

\* ------------------------------------------------ the example of the ages
\* A Collection with comparator 'age', empty at first; items with the ids 1
\* and 2 and the ages 30, 10 and 5.
ExampleIds == {1, 2}
ExampleItems == {Raw(i, a, TRUE) : i \in ExampleIds, a \in ExampleAges}
\* One item, or two as the add of the example passes them.
ExampleBatches == Singles(ExampleItems) \cup {<<x, y>> : x \in ExampleItems, y \in ExampleItems}
ExampleOptions == {[setOptions EXCEPT !.remove = r, !.merge = m] : r \in BOOLEAN, m \in BOOLEAN}

InitExample == InitWith({"age"}, {<<>>})

NextExample ==
    \/ CallAdd(NoHandler, Inputs(ExampleBatches, MergeChoices), MaxCid)
    \/ CallSet(NoHandler, Inputs(Singles(ExampleItems), ExampleOptions), MaxCid)
    \/ Return

SpecExample == InitExample /\ [][NextExample]_vars

\* ------------------------------------------------------------ properties
\* What the properties read: the state after the call, and in `last` the
\* call's input, its events in order (each with the Collection as a listener
\* saw it) and the state the call began in.
Indexed(ms, b, e) ==
    \A c \in SeqToSet(ms) :
        /\ Lookup(b, CidKey(c)) = c
        /\ modelId(e[c]) # NoId => Lookup(b, IdKey(modelId(e[c]))) = c

NoStaleKey(ms, b) == \A k \in DOMAIN b : b[k] \in SeqToSet(ms)

Consistent(ms, len, b, e) == len = Len(ms) /\ Indexed(ms, b, e) /\ NoStaleKey(ms, b)

EventsNamed(name) == {i \in DOMAIN last.log : last.log[i].name = name}

\* C1: after any sequence of top-level add / remove / set / reset calls, every
\* Entity in models is the value of _byId under its cid and under its resolved
\* id, and _byId has no key that maps to an Entity outside models.
C1_IndexMatchesModels == Indexed(models, byId, ents) /\ NoStaleKey(models, byId)

\* A remove has taken an Entity out and left one with an id behind.
C1_Witness ==
    /\ last.op = "remove"
    /\ last.removed # <<>>
    /\ \E c \in SeqToSet(models) : modelId(ents[c]) # NoId

\* C2: length equals the number of elements of models after every top-level
\* call and at every event delivered during a call.
C2_LengthIsModelsLength ==
    /\ length = Len(models)
    /\ \A i \in DOMAIN last.log : last.log[i].length = Len(last.log[i].models)

\* A set that removed, added and reported it.
C2_Witness ==
    /\ last.op = "set"
    /\ EventsNamed("remove") # {}
    /\ EventsNamed("add") # {}
    /\ EventsNamed("update") # {}

\* The Collection as get reads it when an event is delivered.
Snapshot(e) == [byId |-> e.byId, ents |-> e.ents]

\* The Entities whose `remove` event has begun by the i-th delivery.
RemovedBy(i) == {last.log[j].cid : j \in {k \in 1..i : last.log[k].name = "remove"}}

\* C3: when the `remove` event of an Entity is delivered (remove, set with
\* remove enabled, or a destroy signal; not silent), the Entity is gone from
\* models, length is decremented, and get(id), get(cid) and get(entity) find
\* nothing.
C3_GoneAtRemoveEvent ==
    \A i \in EventsNamed("remove") :
        /\ last.log[i].cid \notin SeqToSet(last.log[i].models)
        /\ last.log[i].length = last.pre.length - Cardinality(RemovedBy(i))
        /\ get(Snapshot(last.log[i]), Ref(last.log[i].cid)) = NoModel
        /\ get(Snapshot(last.log[i]), CidKeyOf(last.log[i].cid)) = NoModel
        /\ modelId(last.log[i].ents[last.log[i].cid]) # NoId =>
              get(Snapshot(last.log[i]),
                  IdKeyOf(modelId(last.log[i].ents[last.log[i].cid]))) = NoModel

\* A set removes a stale Entity that has an id, another Entity staying.
C3_Witness ==
    /\ last.op = "set"
    /\ \E i \in EventsNamed("remove") :
          /\ modelId(last.log[i].ents[last.log[i].cid]) # NoId
          /\ last.log[i].length = 1

\* C4: in every reachable state, the ids of owned Entities changing too, no
\* two distinct Entities in models have the same resolved id.
C4_UniqueIds ==
    \A c, d \in SeqToSet(models) :
        (c # d /\ modelId(ents[c]) # NoId) => modelId(ents[c]) # modelId(ents[d])

\* The Entities of the Collection, as the call began, that have the item's id.
Matches(item) ==
    {c \in SeqToSet(last.pre.models) : modelId(last.pre.ents[c]) = modelId(item)}

\* C5: set or add of a raw item whose id is the resolved id of an Entity in the
\* Collection never makes length larger and never constructs a second Entity
\* with that id; the item is merged into the Entity when merge is enabled and
\* otherwise ignored (attributes unchanged, no add event).
C5_MatchingIdNeverAdds ==
    last.op \in {"add", "set"} =>
        \A i \in DOMAIN last.items :
            (/\ last.items[i].kind = "raw"
             /\ modelId(last.items[i]) # NoId
             /\ Matches(last.items[i]) # {}) =>
                /\ Len(last.items) = 1 => length <= last.pre.length
                /\ \A c \in (DOMAIN ents) \ (DOMAIN last.pre.ents) :
                      modelId(ents[c]) # modelId(last.items[i])
                /\ (last.options.merge /\ Len(last.items) = 1) =>
                      \E c \in Matches(last.items[i]) : ents[c].age = last.items[i].age
                /\ ~last.options.merge =>
                      \A c \in Matches(last.items[i]) :
                          ents[c] = last.pre.ents[c] /\ c \notin SeqToSet(last.added)

AllHaveIds(ms, e) == \A c \in SeqToSet(ms) : modelId(e[c]) # NoId

SameMembers ==
    /\ length = last.pre.length
    /\ models = last.pre.models
    /\ EventsNamed("add") = {}
    /\ EventsNamed("remove") = {}

\* C6: set with the Collection's own toJSON() leaves length unchanged, leaves
\* models with the same Entities and emits no add and no remove event,
\* whatever ids the Entities have or lack.
C6_SetOwnJSON == last.op = "setJSON" => SameMembers

\* C6 as the code has it: that holds when every Entity has a resolved id; an
\* Entity without one is not found again, so it is removed and a new Entity
\* added in its place.
C6_SetOwnJSONById ==
    last.op = "setJSON" =>
        IF AllHaveIds(last.pre.models, last.pre.ents) THEN SameMembers
        ELSE EventsNamed("add") # {} /\ EventsNamed("remove") # {}

\* set(toJSON()) on two Entities that both have ids.
C6_Witness ==
    /\ last.op = "setJSON"
    /\ Len(last.pre.models) = MaxCid
    /\ AllHaveIds(last.pre.models, last.pre.ents)
    /\ last.merged # <<>>

\* C7: when handlers of the events call add / remove / set on the Collection,
\* it is consistent whenever a handler runs and after the outermost call
\* returns: length is the length of models, every Entity in models is indexed
\* under its cid and resolved id, and no _byId entry is of an Entity outside
\* models.
C7_ConsistentWithHandlers ==
    last.handler # NoHandler =>
        /\ Consistent(models, length, byId, ents)
        /\ \A i \in DOMAIN last.log :
              Consistent(last.log[i].models, last.log[i].length,
                         last.log[i].byId, last.log[i].ents)

\* The part of C7 about the state the outermost call returns in.
ConsistentAfterReturn ==
    last.handler # NoHandler => Consistent(models, length, byId, ents)

\* models in the order of the comparator 'age'.
IsSorted(ms, e) == \A i, j \in DOMAIN ms : i < j => e[ms[i]].age <= e[ms[j]].age

\* A mutation of a Collection with a comparator, with no `at` and no sort:false.
SortingCall ==
    /\ comparator # "none"
    /\ last.op \in {"add", "set", "reset", "remove"}
    /\ last.options.at = <<>>
    /\ last.options.sort

\* An inserted Entity whose key sorts before all others is at index 0.
FirstIsFirst ==
    \A c \in SeqToSet(last.added) :
        (\A d \in SeqToSet(models) \ {c} : ents[c].age < ents[d].age) => models[1] = c

\* The call changed the list or an Entity of it.
Mutated == models # last.pre.models \/ ents # last.pre.ents

\* C8: with a comparator, after every mutation by add / set / reset / remove
\* that passes neither `at` nor sort:false, models is ordered by the
\* comparator, and an inserted item that sorts before all others is at index 0.
C8_OrderedAfterMutation ==
    (SortingCall /\ Mutated) => IsSorted(models, ents) /\ FirstIsFirst

\* C8 as the code has it: such a call leaves models ordered when it found
\* models ordered (an earlier insertion with `at` or sort:false may have left
\* it otherwise, and only a call that adds or merges a changed sort key sorts).
C8_OrderKept ==
    SortingCall =>
        /\ IsSorted(last.pre.models, last.pre.ents) => IsSorted(models, ents)
        /\ FirstIsFirst

\* An add puts a new Entity before the two that were there, in order.
C8_Witness ==
    /\ SortingCall
    /\ last.op = "add"
    /\ Len(last.pre.models) = 2
    /\ IsSorted(last.pre.models, last.pre.ents)
    /\ Len(models) = 3
    /\ models[1] \in SeqToSet(last.added)
    /\ ents[models[1]].age < ents[models[2]].age

\* The ids of models, in order.
IdsOf(ms, e) == [i \in DOMAIN ms |-> modelId(e[ms[i]])]

\* The Collection after add([{id:1,age:30},{id:2,age:10}]).
AfterExampleAdd(ms, e) ==
    /\ Len(e) = 2
    /\ IdsOf(ms, e) = <<2, 1>>
    /\ e[ms[1]].age = 10
    /\ e[ms[2]].age = 30

ExampleAdd ==
    /\ last.op = "add"
    /\ last.pre.ents = <<>>
    /\ last.items = <<Raw(1, 30, TRUE), Raw(2, 10, TRUE)>>

ExampleSet(options) ==
    /\ last.op = "set"
    /\ AfterExampleAdd(last.pre.models, last.pre.ents)
    /\ last.items = <<Raw(1, 5, TRUE)>>
    /\ last.options = options

OneSortEvent == Cardinality(EventsNamed("sort")) = 1

\* C9: with comparator 'age', add([{id:1,age:30},{id:2,age:10}]) orders models
\* [id2, id1]; then set({id:1, age:5}), merge enabled and the other options
\* default, leaves models [id1, id2] and emits exactly one sort event.
C9_Example ==
    /\ ExampleAdd => IdsOf(models, ents) = <<2, 1>>
    /\ ExampleSet(setOptions) => IdsOf(models, ents) = <<1, 2>> /\ OneSortEvent

\* C9 as the code has it: the set leaves [id1, id2] when remove is disabled;
\* with remove at its default the Entity id2, absent from the input, is
\* removed and models is [id1].  Either way there is exactly one sort event.
C9_ExampleKeepingOthers ==
    /\ ExampleAdd => IdsOf(models, ents) = <<2, 1>>
    /\ ExampleSet([setOptions EXCEPT !.remove = FALSE]) =>
          IdsOf(models, ents) = <<1, 2>> /\ OneSortEvent
    /\ ExampleSet(setOptions) => IdsOf(models, ents) = <<1>> /\ OneSortEvent

\* The set of the example, remove disabled, has run.
C9_Witness ==
    /\ ExampleSet([setOptions EXCEPT !.remove = FALSE])
    /\ ents[models[1]].age = 5

\* The events set emits itself: add and remove on the Entity, sort and update
\* on the Collection.
Emitted(e) ==
    \/ e.src = "model" /\ e.name \in {"add", "remove"}
    \/ e.src = "coll" /\ e.name \in {"sort", "update"}

EmittedLog == SelectSeq(last.log, Emitted)

Tagged(name, cs) == [i \in DOMAIN cs |-> <<name, cs[i]>>]

\* The Entities of the result that the Collection did not hold, in input order.
RECURSIVE NewIn(_, _)
NewIn(ret, seen) ==
    IF ret = <<>> THEN <<>>
    ELSE IF Head(ret).kind = "ref" /\ Head(ret).cid \notin seen
         THEN <<Head(ret).cid>> \o NewIn(Tail(ret), seen \cup {Head(ret).cid})
         ELSE NewIn(Tail(ret), seen)

ExpectedAdds ==
    IF last.options.add THEN NewIn(last.ret, SeqToSet(last.pre.models)) ELSE <<>>

\* The stale Entities: held before, not among the result.
ExpectedRemoves ==
    IF last.op # "add" /\ last.options.remove
    THEN SelectSeq(last.pre.models, LAMBDA c : Ref(c) \notin SeqToSet(last.ret))
    ELSE <<>>

ExpectedEvents ==
    Tagged("remove", ExpectedRemoves) \o Tagged("add", ExpectedAdds)
    \o (IF last.sorted THEN <<<<"sort", NoModel>>>> ELSE <<>>)
    \o (IF ExpectedAdds # <<>> \/ ExpectedRemoves # <<>> \/ last.merged # <<>>
        THEN <<<<"update", NoModel>>>> ELSE <<>>)

\* C10: within one set call that is not silent: the remove events of the stale
\* Entities first, then one add event for each new Entity in input order, then
\* at most one sort (if and only if the Collection was resorted or the order
\* changed), then at most one update (if and only if the added, removed or
\* merged list is not empty), which carries exactly those three lists.
C10_EventOrder ==
    (last.op \in {"set", "setJSON", "add"} /\ ~last.options.silent) =>
        /\ [i \in DOMAIN EmittedLog |-> <<EmittedLog[i].name, EmittedLog[i].cid>>]
              = ExpectedEvents
        /\ \A i \in DOMAIN EmittedLog :
              EmittedLog[i].name = "update" =>
                  EmittedLog[i].changes = [added |-> ExpectedAdds,
                                           removed |-> ExpectedRemoves,
                                           merged |-> last.merged]

\* A set that removes one Entity, adds another and sorts.
C10_Witness ==
    /\ last.op = "set"
    /\ ~last.options.silent
    /\ ExpectedRemoves # <<>>
    /\ ExpectedAdds # <<>>
    /\ EventsNamed("sort") # {}
    /\ EventsNamed("update") # {}

\* ---------------------------------------------------- insertion with `at`
\* add(items, {at: k}) for every k of -MaxAt .. MaxAt, with one or two items,
\* on a Collection that removals shorten again.
AtValues == (0 - MaxAt)..MaxAt
AtItems == {Raw(i, FirstAge, TRUE) : i \in {NoId} \cup Ids}
AtInputs == {[items |-> b, options |-> [setOptions EXCEPT !.merge = FALSE, !.at = <<k>>]] :
                b \in Batches(AtItems) \ {<<>>}, k \in AtValues}

InitAt == InitWith({"none"}, Batches(AtItems))

NextAt ==
    \/ CallAdd(NoHandler, AtInputs, MaxCidSingle)
    \/ CallRemove(NoHandler, Inputs(Singles(RefItems(Len(ents))), {setOptions}), MaxCidSingle)
    \/ Return

SpecAt == InitAt /\ [][NextAt]_vars

\* The position the claim gives for add(items, {at: k}) on length n.
ClaimedPosition(k, n) == Min(Max(IF k < 0 THEN k + n + 1 ELSE k, 0), n)

\* The `add` events as the Entities' listeners got them.
AddEvents == {i \in DOMAIN last.log : last.log[i].name = "add" /\ last.log[i].src = "model"}

\* The new Entities stand together, in input order, from the claimed position.
InsertedAtClaimed ==
    models = splice(last.pre.models, last.added,
                    ClaimedPosition(last.options.at[1], last.pre.length))

\* C11: add(items, {at: k}), k any integer, on a Collection of length n puts
\* the new Entities together, in input order, from position p (k + n + 1 for
\* negative k, then clamped to [0, n]), and the index each Entity's `add` event
\* carries is the Entity's position in models.
C11_AddAt ==
    (last.op = "add" /\ last.options.at # <<>>) =>
        /\ InsertedAtClaimed
        /\ \A i \in AddEvents :
              last.log[i].index = <<IndexOf(last.log[i].models, last.log[i].cid)>>

\* The part of C11 about the positions alone.
C11_Positions == (last.op = "add" /\ last.options.at # <<>>) => InsertedAtClaimed

\* ------------------------------------------------- validation failures
\* The items of the call whose construction fails: raw, invalid, and matching
\* no Entity (they carry no id), so that set hands them to _prepareModel.
Failing == {i \in DOMAIN last.items : last.items[i].kind = "raw" /\ ~last.items[i].valid}

InvalidEvents == {i \in DOMAIN last.log : last.log[i].name = "invalid" /\ last.log[i].src = "coll"}

\* The Entity the call's result has for the i-th item is in the Collection.
IsMember(c) == c \in SeqToSet(models) /\ Lookup(byId, CidKey(c)) = c

\* C12: when add or set processes a batch some items of which fail validation
\* at construction, there is exactly one `invalid` event per failing item, a
\* failing item leaves no Entity in models or _byId, and every other item of
\* the batch, before or after a failing one, has its Entity in the Collection.
C12_InvalidDropped ==
    (last.op \in {"add", "set"} /\ last.options.add) =>
        /\ Cardinality(InvalidEvents) = Cardinality(Failing)
        /\ \A i \in Failing : last.ret[i].kind = "false"
        /\ \A c \in (DOMAIN ents) \ (DOMAIN last.pre.ents) : c \in SeqToSet(last.added)
        /\ \A c \in SeqToSet(last.added) : IsMember(c)
        /\ \A i \in (DOMAIN last.items) \ Failing :
              last.ret[i].kind = "ref" /\ IsMember(last.ret[i].cid)
        /\ \A k \in DOMAIN byId : byId[k] \in SeqToSet(models)

\* A batch of a failing item and a valid new one, in either order.
C12_Witness ==
    /\ last.op \in {"add", "set"}
    /\ Len(last.items) = 2
    /\ Cardinality(Failing) = 1
    /\ Len(last.added) = 1
    /\ Cardinality(InvalidEvents) = 1
    /\ Len(models) > Len(last.pre.models)

\* ------------------------------------------------------------- iteration
\* values(), keys() or entries() makes an iterator; next() advances it;
\* between the calls the Collection grows and shrinks by one Entity.
Iterate ==
    /\ last.op = "idle"
    /\ \E kind \in {ITERATOR_VALUES, ITERATOR_KEYS, ITERATOR_KEYSVALUES} :
          iter' = CollectionIterator(kind)
    /\ UNCHANGED <<ents, models, length, byId, lst, comparator, net, other, last>>

CallNext ==
    /\ last.op = "idle"
    /\ iter.kind # NoKind
    /\ iter' = Seen(World, iter, next(World, iter))
    /\ UNCHANGED <<ents, models, length, byId, lst, comparator, net, other, last>>

InitIter == InitWith({"none"}, Batches(AtItems))

NextIter ==
    \/ Iterate
    \/ CallNext
    \/ CallAdd(NoHandler, Inputs(Singles(AtItems), {[setOptions EXCEPT !.merge = FALSE]}),
               MaxCidSingle)
    \/ CallRemove(NoHandler, Inputs(Singles(RefItems(Len(ents))), {setOptions}), MaxCidSingle)
    \/ Return

SpecIter == InitIter /\ [][NextIter]_vars

\* C13: an iterator that has returned a done result returns done, with value
\* undefined, on every later next(), also when Entities were added since; and
\* with the Collection not mutated during the iteration, the call of next()
\* that follows `length` advances of values() returns done (the calls before
\* it return the models in order).
C13_DoneStaysDone ==
    /\ iter.wasDone => (iter.res.done /\ iter.res.value = <<>>)
    /\ (iter.kind = ITERATOR_VALUES /\ iter.returned /\ iter.clean) =>
          IF iter.before = length THEN iter.res.done
          ELSE iter.res = Result(<<models[iter.before + 1]>>, FALSE)

\* An exhausted iterator was asked again after the Collection had grown
\* beyond its position.
C13_Witness ==
    /\ iter.wasDone
    /\ iter.res.done
    /\ iter.index > 0
    /\ iter.seen > iter.index
    /\ length > iter.index

\* ----------------------------------------------------------------- fetches
\* The options fetch reads.
FetchOptions ==
    [reset : BOOLEAN, promise : BOOLEAN, success : BOOLEAN, error : BOOLEAN, parse : BOOLEAN]

\* What the server answers: up to MaxBatch items with ids.
Responses == Batches({Raw(i, a, TRUE) : i \in Ids, a \in AgeValues})

CallFetch(optionSet) ==
    /\ last.op = "idle"
    /\ net.sent < MaxFetch
    /\ \E o \in optionSet :
          /\ net' = fetch(net, o)
          /\ last' = [Idle EXCEPT !.op = "fetch", !.items = <<o>>, !.pre = Pre]
    /\ UNCHANGED <<ents, models, length, byId, lst, comparator, iter, other>>

\* The adapter answers a request in flight, whichever, with success.
Succeed(h, cap) ==
    /\ last.op = "idle"
    /\ \E i \in DOMAIN net.inflight, resp \in Responses :
          /\ Applied(FetchSuccess(World, net.inflight[i], resp, h),
                     [Idle EXCEPT !.op = "success", !.items = resp,
                                  !.ret = <<net.inflight[i]>>], cap)
          /\ net' = Answered(net, i, TRUE)

\* The adapter answers a request in flight with a failure.
Fail(h, cap) ==
    /\ last.op = "idle"
    /\ \E i \in DOMAIN net.inflight :
          /\ Applied(wrapError(World, h),
                     [Idle EXCEPT !.op = "error", !.ret = <<net.inflight[i]>>], cap)
          /\ net' = Answered(net, i, FALSE)

InitFetch == InitWith({"none"}, Responses)

NextFetch ==
    \/ CallFetch(FetchOptions)
    \/ Succeed(NoHandler, MaxCidSingle)
    \/ Fail(NoHandler, MaxCidSingle)
    \/ Return

SpecFetch == InitFetch /\ [][NextFetch]_vars

\* C14: every call of fetch, whatever reset, promise, success, error and parse
\* are, calls the sync adapter exactly once, with method 'read' and the
\* Collection as target; after a failure the Collection issues no request.
C14_FetchSyncsOnce ==
    /\ last.op = "fetch" =>
          /\ net.sent = last.pre.sent + 1
          /\ net.inflight # <<>>
          /\ net.inflight[Len(net.inflight)].num = net.sent
          /\ net.inflight[Len(net.inflight)].method = "read"
          /\ net.inflight[Len(net.inflight)].target = "collection"
    /\ last.op = "error" => net.sent = last.pre.sent

\* C14 but for a fetch that asks for a promise.
C14_WithoutPromise ==
    /\ (last.op = "fetch" /\ ~last.items[1].promise) =>
          /\ net.sent = last.pre.sent + 1
          /\ net.inflight # <<>>
          /\ net.inflight[Len(net.inflight)].num = net.sent
          /\ net.inflight[Len(net.inflight)].method = "read"
          /\ net.inflight[Len(net.inflight)].target = "collection"
    /\ last.op = "error" => net.sent = last.pre.sent

\* A sequence without its repetitions, each element at its first occurrence.
RECURSIVE Collapsed(_)
Collapsed(q) ==
    IF q = <<>> THEN <<>>
    ELSE IF q[Len(q)] \in SeqToSet(SubSeq(q, 1, Len(q) - 1))
         THEN Collapsed(SubSeq(q, 1, Len(q) - 1))
         ELSE Append(Collapsed(SubSeq(q, 1, Len(q) - 1)), q[Len(q)])

\* The attributes of models, in order.
AttrsOf(ms, e) == [i \in DOMAIN ms |-> e[ms[i]]]

\* The attributes a response leaves for each of its ids: those of the last
\* item with the id, at the place of the first.
ResponseAttrs(resp) ==
    LET ids == Collapsed([i \in DOMAIN resp |-> resp[i].id])
    IN  [k \in DOMAIN ids |->
            LET j == CHOOSE j \in DOMAIN resp :
                        resp[j].id = ids[k] /\ \A m \in DOMAIN resp : resp[m].id = ids[k] => m <= j
            IN  [id |-> ids[k], age |-> resp[j].age]]

\* C15: overlapping fetches with the default options are not serialized: each
\* success callback reconciles the Collection with its own response when it
\* runs, so after it the members are those of the response that resolved
\* last, whichever fetch was issued first.
C15_LastResponseWins ==
    (last.op = "success" /\ ~last.ret[1].reset) =>
        /\ length = Len(models)
        /\ AttrsOf(models, ents) = ResponseAttrs(last.items)

\* Two fetches were in flight; the second was answered first, and the answer
\* to the first has now replaced its members.
C15_Witness ==
    /\ last.op = "success"
    /\ ~last.ret[1].reset
    /\ net.resolved = <<2, 1>>
    /\ last.pre.models # <<>>
    /\ models # <<>>
    /\ IdsOf(models, ents) # IdsOf(last.pre.models, last.pre.ents)

\* ----------------------------------------------------------------- removals
\* remove with a list of up to MaxBatch keys, remove with one key, pop and
\* shift, silent or not, on a Collection that adds refill.
InitRemove == InitWith({"none"}, Batches(AtItems))

NextRemove ==
    \/ CallAdd(NoHandler, Inputs(Singles(AtItems), {[setOptions EXCEPT !.merge = FALSE]}),
               MaxCidSingle)
    \/ CallRemove(NoHandler, RemoveInputs(Len(ents)), MaxCidSingle)
    \/ CallRemoveOne(NoHandler, Inputs(Singles(Keys(Len(ents))), SilentOrNot), MaxCidSingle)
    \/ CallPop(NoHandler, MaxCidSingle)
    \/ CallShift(NoHandler, MaxCidSingle)
    \/ Return

SpecRemove == InitRemove /\ [][NextRemove]_vars

Removal == last.op \in {"remove", "removeOne", "pop", "shift"}

\* The members, as the call began, that a key identifies: the Entity itself,
\* the one with the cid, the one with the id, or the one with the id of the
\* Entity passed.
Identified(key) ==
    {c \in SeqToSet(last.pre.models) :
        \/ key.kind \in {"ref", "cid"} /\ key.cid = c
        \/ key.kind = "id" /\ modelId(last.pre.ents[c]) = key.id
        \/ /\ key.kind = "ref"
           /\ modelId(last.pre.ents[key.cid]) # NoId
           /\ modelId(last.pre.ents[c]) = modelId(last.pre.ents[key.cid])}

\* C16: remove with keys none of which identifies a member (remove of an
\* unknown id, pop and shift on an empty Collection among them) returns
\* undefined for a single key and an empty list for a list, fires no event
\* and leaves models, length and _byId as they were.
C16_UnknownKeysChangeNothing ==
    (Removal /\ \A i \in DOMAIN last.items : Identified(last.items[i]) = {}) =>
        /\ last.ret = IF last.op = "remove" THEN <<>> ELSE <<Undefined>>
        /\ last.log = <<>>
        /\ models = last.pre.models
        /\ length = last.pre.length
        /\ byId = last.pre.byId

\* remove of a list of two keys, one of them an Entity removed earlier, on a
\* Collection that holds another Entity.
C16_Witness ==
    /\ last.op = "remove"
    /\ ~last.options.silent
    /\ Len(last.items) = 2
    /\ \E i \in DOMAIN last.items : last.items[i].kind = "ref"
    /\ \A i \in DOMAIN last.items : Identified(last.items[i]) = {}
    /\ models # <<>>

\* pop() on an empty Collection.
PopOnEmpty == last.op = "pop" /\ last.pre.models = <<>> /\ last.ret = <<Undefined>>

\* The members the keys of the call identify, in the order of the keys, each
\* once.
RECURSIVE IdentifiedBy(_)
IdentifiedBy(keys) ==
    IF keys = <<>> THEN <<>>
    ELSE IF Identified(Head(keys)) = {} THEN IdentifiedBy(Tail(keys))
    ELSE <<CHOOSE c \in Identified(Head(keys)) : TRUE>> \o IdentifiedBy(Tail(keys))

ExpectedRemoved == Collapsed(IdentifiedBy(last.items))

LoudRemove == last.op = "remove" /\ ~last.options.silent

\* The result of remove(list) and its `remove` events.
ReturnsRemoved ==
    /\ last.ret = Refs(ExpectedRemoved)
    /\ \A c \in SeqToSet(ExpectedRemoved) : c \notin SeqToSet(models)
    /\ Len(models) = Len(last.pre.models) - Len(ExpectedRemoved)

UpdateOfRemoved ==
    <<[name |-> "update", cid |-> NoModel,
       changes |-> [added |-> <<>>, merged |-> <<>>, removed |-> ExpectedRemoved]]>>

RemoveEvents ==
    [i \in DOMAIN ExpectedRemoved |->
        [name |-> "remove", cid |-> ExpectedRemoved[i], changes |-> NoChanges]]

EmittedEvents ==
    [i \in DOMAIN EmittedLog |->
        [name |-> EmittedLog[i].name, cid |-> EmittedLog[i].cid,
         changes |-> EmittedLog[i].changes]]

\* C17: remove(list), not silent, returns exactly the members it removed, each
\* once, in removal order (a repeated or unknown key adds nothing), and emits
\* one `remove` event per removed Entity and then exactly one `update` event
\* whose changes.removed is the returned sequence.
C17_RemoveReportsOnce ==
    (LoudRemove /\ last.items # <<>>) => ReturnsRemoved /\ EmittedEvents = RemoveEvents \o UpdateOfRemoved

\* C17 as the code has it: the one `update` event comes when at least one
\* Entity was removed; a remove that removes nothing emits no event.
C17_RemoveReportsIfAny ==
    LoudRemove =>
        /\ ReturnsRemoved
        /\ EmittedEvents = IF ExpectedRemoved = <<>> THEN <<>>
                           ELSE RemoveEvents \o UpdateOfRemoved

\* A remove of two members in one list.
C17_Witness ==
    /\ LoudRemove
    /\ Len(last.items) = 2
    /\ Len(last.removed) = 2
    /\ Cardinality(EventsNamed("update")) = 1

\* C18: sort on a Collection without comparator raises an error to its
\* caller, emits no `sort` event and leaves models, length and _byId alone.
C18_SortNeedsComparator ==
    (last.op = "sort" /\ comparator = "none") =>
        /\ last.threw
        /\ last.log = <<>>
        /\ models = last.pre.models
        /\ length = last.pre.length
        /\ byId = last.pre.byId

\* sort without comparator, not silent, on a Collection of two Entities that
\* a sort by age would swap.
C18_Witness ==
    /\ last.op = "sort"
    /\ comparator = "none"
    /\ ~last.options.silent
    /\ last.threw
    /\ Len(models) = 2
    /\ ents[models[1]].age > ents[models[2]].age

\* set(items) with the default options, no comparator, items not empty and
\* all valid.
FullSet ==
    /\ last.op = "set"
    /\ last.options = setOptions
    /\ comparator = "none"
    /\ last.items # <<>>
    /\ \A i \in DOMAIN last.items : last.items[i].valid

\* The Entity the result has at place i is the one the i-th item stands for:
\* the Entity passed (or the member with its id), the member with the item's
\* id (or one Entity for the id when there was none), a new Entity for an item
\* without id.
Corresponds(i) ==
    /\ last.ret[i].kind = "ref"
    /\ last.items[i].kind = "ref" =>
          \/ last.ret[i].cid = last.items[i].cid
          \/ /\ modelId(last.pre.ents[last.items[i].cid]) # NoId
             /\ modelId(ents[last.ret[i].cid]) = modelId(last.pre.ents[last.items[i].cid])
    /\ (last.items[i].kind = "raw" /\ modelId(last.items[i]) # NoId) =>
          /\ modelId(ents[last.ret[i].cid]) = modelId(last.items[i])
          /\ Matches(last.items[i]) # {} => last.ret[i].cid \in Matches(last.items[i])
    /\ (last.items[i].kind = "raw" /\ modelId(last.items[i]) = NoId) =>
          /\ last.ret[i].cid \notin DOMAIN last.pre.ents
          /\ \A j \in (DOMAIN last.items) \ {i} : last.ret[j].cid # last.ret[i].cid

\* C19: after set(items) with the default options on a Collection without
\* comparator, items not empty and all valid, models is the Entities of the
\* items in input order, a repeated Entity at its first place only: Entities
\* kept take the places the input gives them and the others are gone.
C19_ModelsFollowInput ==
    FullSet =>
        /\ \A i \in DOMAIN last.items : Corresponds(i)
        /\ models = Collapsed([i \in DOMAIN last.ret |-> last.ret[i].cid])
        /\ length = Len(models)

\* set([b, a]) on a Collection that held [a, b].
C19_Witness ==
    /\ FullSet
    /\ Len(last.pre.models) = 2
    /\ models = <<last.pre.models[2], last.pre.models[1]>>

\* The Collection as get reads it now.
Now == [byId |-> byId, ents |-> ents]

\* A member's id has changed and its `change` event was dispatched.
MemberIdChanged(c) ==
    /\ last.op = "modelSet"
    /\ last.items[1].cid = c
    /\ c \in SeqToSet(last.pre.models)
    /\ modelId(last.pre.ents[c]) # modelId(ents[c])
    /\ \E i \in EventsNamed("change") : last.log[i].src = "model" /\ last.log[i].cid = c

\* What C20 says of the Entity c after the change.
IndexFollows(c) ==
    /\ get(Now, IdKeyOf(modelId(ents[c]))) = c
    /\ modelId(last.pre.ents[c]) # NoId =>
          get(Now, IdKeyOf(modelId(last.pre.ents[c]))) # c
    /\ get(Now, CidKeyOf(c)) = c
    /\ models = last.pre.models
    /\ length = last.pre.length

\* C20: when the resolved id of an owned Entity changes from p to q and its
\* `change` event is dispatched, afterwards get(q) returns the Entity, get(p)
\* does not, get by its cid still finds it, and models and length are as
\* before.
C20_IndexFollowsId == \A c \in DOMAIN ents : MemberIdChanged(c) => IndexFollows(c)

\* C20 for a change that finds length, models and _byId consistent, whether
\* or not another member has the new id.
IndexFollowsFromConsistent ==
    \A c \in DOMAIN ents :
        (/\ MemberIdChanged(c)
         /\ Consistent(last.pre.models, last.pre.length, last.pre.byId, last.pre.ents)) =>
            IndexFollows(c)

\* An Entity with id p takes an id q that no other member has.
IdTaken ==
    \E c \in DOMAIN ents :
        /\ MemberIdChanged(c)
        /\ modelId(last.pre.ents[c]) # NoId
        /\ \A d \in SeqToSet(models) \ {c} : modelId(ents[d]) # modelId(ents[c])
        /\ Len(models) = 2

\* ------------------------------------------------------------- destroy
\* The deliveries to the Collection's listeners, in order.
OnCollection(e) == e.src = "coll"
CollectionLog == SelectSeq(last.log, OnCollection)

\* The Entity of the call, when the call is its destroy signal and the
\* Collection held it.
DestroyedMember(c) ==
    /\ last.op = "destroy"
    /\ last.items[1].cid = c
    /\ c \in SeqToSet(last.pre.models)

\* The Entity is out of what a listener (or the caller) sees: not in models,
\* no key of the index maps to it, and length is one less than it was.
GoneFrom(c, ms, len, b) ==
    /\ c \notin SeqToSet(ms)
    /\ \A k \in DOMAIN b : b[k] # c
    /\ len = last.pre.length - 1

\* C21: when a member Entity emits destroy, the Collection removes it: it
\* leaves models and _byId and length drops by one; the Collection emits
\* remove and then update for it (update carrying it as the one removed), and
\* then re-emits destroy, delivered when the removal has taken effect.
C21_DestroyRemoves ==
    \A c \in DOMAIN ents :
        DestroyedMember(c) =>
            /\ GoneFrom(c, models, length, byId)
            /\ [i \in DOMAIN CollectionLog |-> <<CollectionLog[i].name, CollectionLog[i].cid>>]
                  = <<<<"remove", c>>, <<"update", NoModel>>, <<"destroy", c>>>>
            /\ CollectionLog[2].changes = [added |-> <<>>, merged |-> <<>>, removed |-> <<c>>]
            /\ \A i \in DOMAIN CollectionLog :
                  GoneFrom(c, CollectionLog[i].models, CollectionLog[i].length,
                           CollectionLog[i].byId)

\* The first of two members, one with an id, emits destroy; the other stays.
C21_Witness ==
    \E c \in DOMAIN ents :
        /\ DestroyedMember(c)
        /\ modelId(ents[c]) # NoId
        /\ Len(last.pre.models) = 2
        /\ last.pre.models[1] = c
        /\ Len(models) = 1

\* ---------------------------------------------- events of an Entity, proxied
\* The call is an event of the Entity c: its destroy signal, or the change of
\* a Model.set from outside the Collection.
EmittedBy(c) == last.op \in {"destroy", "modelSet"} /\ last.items[1].cid = c

\* The deliveries of c's event `name` to the Entity's own listeners (src
\* "model") or to the Collection's (src "coll").
Deliveries(src, name, c) ==
    {i \in DOMAIN last.log :
        last.log[i].src = src /\ last.log[i].name = name /\ last.log[i].cid = c}

EntityEventNames == {"change", "destroy", "remove"}

\* Nothing reached the Collection: no delivery to its listeners, and models,
\* length and _byId as they were.
Unheard ==
    /\ CollectionLog = <<>>
    /\ models = last.pre.models
    /\ length = last.pre.length
    /\ byId = last.pre.byId

\* Every event the Entity emitted reached the Collection's listeners once.
HeardOnce(c) ==
    \A name \in EntityEventNames :
        Cardinality(Deliveries("coll", name, c)) = Cardinality(Deliveries("model", name, c))

\* C22: an Entity that has left the Collection (by remove, by set with remove
\* enabled, or by reset) emits an event: nothing is re-emitted on the
\* Collection and _byId, models and length stay as they were; a member emits an
\* event: the Collection re-emits it exactly once.
C22_ProxiedWhileMember ==
    \A c \in DOMAIN ents :
        EmittedBy(c) =>
            IF c \in SeqToSet(last.pre.models) THEN HeardOnce(c) ELSE Unheard

\* The same for an event that finds models, length and _byId consistent and
\* the Collection subscribed to its members and to nothing else.
SubscribedToMembers(ms, l) ==
    \A c \in DOMAIN l : l[c] = IF c \in SeqToSet(ms) THEN 1 ELSE 0

ProxiedFromConsistent ==
    \A c \in DOMAIN ents :
        (/\ EmittedBy(c)
         /\ Consistent(last.pre.models, last.pre.length, last.pre.byId, last.pre.ents)
         /\ SubscribedToMembers(last.pre.models, last.pre.lst)) =>
            IF c \in SeqToSet(last.pre.models) THEN HeardOnce(c) ELSE Unheard

\* An Entity that was removed changes its id to one no member has.
RemovedEmits ==
    \E c \in DOMAIN ents :
        /\ last.op = "modelSet"
        /\ last.items[1].cid = c
        /\ c \notin SeqToSet(last.pre.models)
        /\ modelId(last.pre.ents[c]) # modelId(ents[c])
        /\ Deliveries("model", "change", c) # {}
        /\ models # <<>>

\* ------------------------------------------- an Entity in two Collections
\* Two Collections, this one (A) and the other (B), over the same Entities:
\* A adds raw items and Entities and removes Entities, B adds and removes
\* Entities; each hears the events of the Entities it is subscribed to.

\* The state after a call on A that ended in world W, B having heard it as O.
HereDone(info, W, O, cap) ==
    /\ Settled(W, [info EXCEPT !.heard = O.log], cap)
    /\ other' = OtherOf(O)
    /\ net' = net

HereAdded(in, R, cap) ==
    HereDone([Info("add", in, NoHandler) EXCEPT !.ret = R.ret, !.added = R.added],
             R.W, Overheard(OtherWorld(R.W, other), R.W.log), cap)

HereRemoved(in, R, cap) ==
    HereDone([Info("remove", in, NoHandler) EXCEPT !.ret = RemoveReturn(FALSE, R.ret),
                                                  !.removed = R.ret],
             R.W, Overheard(OtherWorld(R.W, other), R.W.log), cap)

\* The state after a call on B that ended in world O, A having heard it.
ThereDone(info, O, cap) ==
    /\ Settled(Overheard(World, O.log), [info EXCEPT !.heard = O.log], cap)
    /\ other' = OtherOf(O)
    /\ net' = net

ThereAdded(in, R, cap) ==
    ThereDone([Info("addThere", in, NoHandler) EXCEPT !.ret = R.ret, !.added = R.added],
              R.W, cap)

ThereRemoved(in, R, cap) ==
    ThereDone([Info("removeThere", in, NoHandler) EXCEPT !.ret = RemoveReturn(FALSE, R.ret),
                                                       !.removed = R.ret],
              R.W, cap)

TwoAddOptions == {[setOptions EXCEPT !.merge = FALSE]}

AddHere(inputs, cap) ==
    /\ last.op = "idle"
    /\ \E in \in inputs : HereAdded(in, add(World, in.items, in.options, NoHandler), cap)

RemoveHere(inputs, cap) ==
    /\ last.op = "idle"
    /\ \E in \in inputs : HereRemoved(in, remove(World, in.items, in.options, NoHandler), cap)

AddThere(inputs, cap) ==
    /\ last.op = "idle"
    /\ \E in \in inputs :
          ThereAdded(in, add(OtherWorld(World, other), in.items, in.options, NoHandler), cap)

RemoveThere(inputs, cap) ==
    /\ last.op = "idle"
    /\ \E in \in inputs :
          ThereRemoved(in, remove(OtherWorld(World, other), in.items, in.options, NoHandler),
                       cap)

InitTwo == InitWith({"none"}, Batches(AtItems))

NextTwo ==
    \/ AddHere(Inputs(Singles(AtItems \cup RefItems(Len(ents))), TwoAddOptions), MaxCidSingle)
    \/ RemoveHere(Inputs(Singles(RefItems(Len(ents))), {setOptions}), MaxCidSingle)
    \/ AddThere(Inputs(Singles(RefItems(Len(ents))), TwoAddOptions), MaxCidSingle)
    \/ RemoveThere(Inputs(Singles(RefItems(Len(ents))), {setOptions}), MaxCidSingle)
    \/ Return

SpecTwo == InitTwo /\ [][NextTwo]_vars

\* The Entity c was added to or removed from the Collection the call was made
\* on.
Moved(c) == c \in SeqToSet(last.added) \cup SeqToSet(last.removed)

AddOrRemove(e) == e.src = "coll" /\ e.name \in {"add", "remove"}

\* C23: an Entity held by two Collections is added to or removed from one of
\* them: the add or remove event is not re-emitted on the other, whose models,
\* length and _byId stay as they were.
C23_OtherCollectionUntouched ==
    \A c \in DOMAIN ents :
        /\ (last.op \in {"add", "remove"} /\ Moved(c) /\ c \in SeqToSet(last.pre.other.models)) =>
              /\ SelectSeq(last.heard, AddOrRemove) = <<>>
              /\ other.models = last.pre.other.models
              /\ other.length = last.pre.other.length
              /\ other.byId = last.pre.other.byId
        /\ (last.op \in {"addThere", "removeThere"} /\ Moved(c)
                /\ c \in SeqToSet(last.pre.models)) =>
              /\ SelectSeq(last.log, AddOrRemove) = <<>>
              /\ models = last.pre.models
              /\ length = last.pre.length
              /\ byId = last.pre.byId

\* An Entity with an id, held by both Collections, is removed from this one,
\* with its remove event, and the other still holds it.
C23_Witness ==
    \E c \in DOMAIN ents :
        /\ last.op = "remove"
        /\ c \in SeqToSet(last.removed)
        /\ modelId(ents[c]) # NoId
        /\ c \in SeqToSet(last.pre.other.models)
        /\ c \in SeqToSet(other.models)
        /\ \E i \in EventsNamed("remove") : last.log[i].src = "coll" /\ last.log[i].cid = c

\* An Entity held by the other Collection is added to this one.
AddedToSecond ==
    \E c \in DOMAIN ents :
        /\ last.op = "add"
        /\ c \in SeqToSet(last.added)
        /\ c \in SeqToSet(last.pre.other.models)
        /\ \E i \in EventsNamed("add") : last.log[i].src = "coll" /\ last.log[i].cid = c

\* ------------------------------------------------------------------ resets
\* reset with no `silent` among its options, with silent: false, and with
\* silent: true.
ResetOptionSet ==
    {[setOptions EXCEPT !.merge = FALSE],
     [setOptions EXCEPT !.merge = FALSE, !.silentGiven = TRUE],
     [setOptions EXCEPT !.merge = FALSE, !.silent = TRUE, !.silentGiven = TRUE]}

\* Raw items with and without an id, one that fails validation, and Entities.
ResetItems(n) == AtItems \cup InvalidItems \cup RefItems(n)

InitReset == InitWith({"none", "age"}, Batches(AtItems))

NextReset ==
    \/ CallRemove(NoHandler, Inputs(Singles(RefItems(Len(ents))), {setOptions}), MaxCidSingle)
    \/ CallReset(NoHandler, Inputs(Batches(ResetItems(Len(ents))), ResetOptionSet), MaxCidSingle)
    \/ Return

SpecReset == InitReset /\ [][NextReset]_vars

\* The Entities of the call's result.
Built == {last.ret[i].cid : i \in {j \in DOMAIN last.ret : last.ret[j].kind = "ref"}}

\* The call emitted no granular event.
NoGranularEvent ==
    \A name \in {"add", "remove", "sort", "update"} : EventsNamed(name) = {}

\* One `reset` event, delivered with the Collection as the call leaves it and
\* carrying the models the call began with.
OneResetEvent ==
    /\ Cardinality(EventsNamed("reset")) = 1
    /\ \A i \in EventsNamed("reset") :
          /\ last.log[i].src = "coll"
          /\ last.log[i].models = models
          /\ last.log[i].length = length
          /\ last.log[i].byId = byId
          /\ last.log[i].changes = [previousModels |-> last.pre.models]

\* The members are the Entities built from the items, each once, and no
\* earlier member that is not among them is left in models or _byId.
MembersAreBuilt ==
    /\ SeqToSet(models) = Built
    /\ Len(models) = Cardinality(Built)
    /\ \A c \in SeqToSet(last.pre.models) \ Built :
          c \notin SeqToSet(models) /\ \A k \in DOMAIN byId : byId[k] # c

\* C24: a reset(items) that is not silent emits no add, remove, sort or update
\* event and exactly one reset event, fired when the new membership is in
\* place and carrying the previous models as previousModels; afterwards the
\* members are exactly the Entities built from items, and no previous member
\* that is not among them remains in models or _byId.
C24_ResetIsOneEvent ==
    (last.op = "reset" /\ ~last.options.silent) =>
        NoGranularEvent /\ OneResetEvent /\ MembersAreBuilt

\* The same for a reset whose options carry no `silent`.
ResetWithoutSilentKey ==
    (last.op = "reset" /\ ~last.options.silent /\ ~last.options.silentGiven) =>
        NoGranularEvent /\ OneResetEvent /\ MembersAreBuilt

\* All but the absence of granular events, for every reset that is not silent.
ResetButGranular ==
    (last.op = "reset" /\ ~last.options.silent) => OneResetEvent /\ MembersAreBuilt

\* A reset with silent: false of a Collection of two replaces them by one new
\* Entity.
ResetLoud ==
    /\ last.op = "reset"
    /\ last.options.silentGiven
    /\ ~last.options.silent
    /\ Len(last.pre.models) = 2
    /\ Len(models) = 1
    /\ models[1] \notin SeqToSet(last.pre.models)

\* ---------------------------------------------------------------- creates
\* create with and without wait, of raw items with and without an id and of
\* one that fails validation; the adapter answers the saves in any order;
\* between them raw items are added and Entities removed.
CreateOptions == [setOptions EXCEPT !.merge = FALSE]

CreateDone(item, wait, R, cap) ==
    /\ Applied(R.W, [Idle EXCEPT !.op = "create", !.items = <<item>>,
                                 !.options = CreateOptions, !.wait = wait,
                                 !.ret = R.ret], cap)
    /\ net' = R.net

CallCreate(h, items, cap) ==
    /\ last.op = "idle"
    /\ net.sent < MaxFetch
    /\ \E item \in items, wait \in BOOLEAN :
          CreateDone(item, wait, create(World, net, item, wait, CreateOptions, h), cap)

\* The adapter answers a save with success; the response changes no attribute.
Saved(h, cap) ==
    /\ last.op = "idle"
    /\ \E i \in DOMAIN net.inflight :
          /\ Applied(CreateSuccess(World, net.inflight[i], CreateOptions, h),
                     [Idle EXCEPT !.op = "saved", !.items = <<Ref(net.inflight[i].cid)>>,
                                  !.wait = net.inflight[i].wait,
                                  !.ret = <<net.inflight[i]>>], cap)
          /\ net' = Answered(net, i, TRUE)

\* The adapter answers a save with a failure: the Entity emits `error`.
SaveFailed(h, cap) ==
    /\ last.op = "idle"
    /\ \E i \in DOMAIN net.inflight :
          /\ Applied(modelTrigger(World, "error", net.inflight[i].cid,
                                  ents[net.inflight[i].cid], h),
                     [Idle EXCEPT !.op = "saveError", !.items = <<Ref(net.inflight[i].cid)>>,
                                  !.ret = <<net.inflight[i]>>], cap)
          /\ net' = Answered(net, i, FALSE)

CreateItems == AtItems \cup InvalidItems

InitCreate == InitWith({"none"}, Batches(AtItems))

NextCreate ==
    \/ CallCreate(NoHandler, CreateItems, MaxCidSingle)
    \/ Saved(NoHandler, MaxCidSingle)
    \/ SaveFailed(NoHandler, MaxCidSingle)
    \/ CallAdd(NoHandler, Inputs(Singles(AtItems), {CreateOptions}), MaxCidSingle)
    \/ CallRemove(NoHandler, Inputs(Singles(RefItems(Len(ents))), {setOptions}), MaxCidSingle)
    \/ Return

SpecCreate == InitCreate /\ [][NextCreate]_vars

\* The Entity a create has built: the last one constructed.
CreatedEntity == Len(ents)

CreateOf(valid, wait) ==
    last.op = "create" /\ last.items[1].valid = valid /\ last.wait = wait

Unchanged ==
    models = last.pre.models /\ length = last.pre.length /\ byId = last.pre.byId

\* A save with wait is in flight and nothing else has made its Entity a member.
Waiting == \A i \in DOMAIN net.inflight :
               net.inflight[i].wait => net.inflight[i].cid \notin SeqToSet(models)

\* create of an item that fails validation.
CreateInvalid ==
    CreateOf(FALSE, TRUE) \/ CreateOf(FALSE, FALSE) =>
        /\ last.ret = <<False>>
        /\ net.sent = last.pre.sent
        /\ ents = last.pre.ents
        /\ Unchanged

\* create of a valid item issues one save and returns the Entity.
CreateSaves ==
    CreateOf(TRUE, TRUE) \/ CreateOf(TRUE, FALSE) =>
        /\ last.ret = <<Ref(CreatedEntity)>>
        /\ Len(ents) = Len(last.pre.ents) + 1
        /\ net.sent = last.pre.sent + 1
        /\ net.inflight[Len(net.inflight)] = SaveRequest(net.sent, CreatedEntity, last.wait)

\* C25: create(attrs, {wait: true}) does not make the new Entity a member
\* until the success callback of the save runs, and makes it one when it runs;
\* without wait the Entity is a member before the save completes; when the
\* construction fails validation create returns false, issues no save and
\* leaves the membership as it was.
C25_CreateMembership ==
    /\ CreateInvalid
    /\ CreateSaves
    /\ Waiting
    /\ CreateOf(TRUE, TRUE) => CreatedEntity \notin SeqToSet(models) /\ Unchanged
    /\ CreateOf(TRUE, FALSE) => CreatedEntity \in SeqToSet(models)
    /\ (last.op = "saved" /\ last.wait) => last.items[1].cid \in SeqToSet(models)

\* A member other than c has the id of c.
IdHeld(c, ms, e) ==
    modelId(e[c]) # NoId /\ \E d \in SeqToSet(ms) \ {c} : modelId(e[d]) = modelId(e[c])

\* The Entity c became a member by the call, unless a member had its id, and
\* then the Collection is as it was.
JoinsUnlessIdHeld(c) ==
    IF IdHeld(c, last.pre.models, ents) THEN Unchanged
    ELSE c \in SeqToSet(models) /\ Lookup(byId, CidKey(c)) = c

\* C25, with the Entity a member provided no member holds its id when it is
\* added.
C25_CreateUnlessIdHeld ==
    /\ CreateInvalid
    /\ CreateSaves
    /\ Waiting
    /\ CreateOf(TRUE, TRUE) => CreatedEntity \notin SeqToSet(models) /\ Unchanged
    /\ CreateOf(TRUE, FALSE) => JoinsUnlessIdHeld(CreatedEntity)
    /\ (last.op = "saved" /\ last.wait) => JoinsUnlessIdHeld(last.items[1].cid)

\* The save of a create with wait has succeeded and its Entity, with an id,
\* has joined a member.
C25_Witness ==
    /\ last.op = "saved"
    /\ last.wait
    /\ modelId(ents[last.items[1].cid]) # NoId
    /\ last.items[1].cid \in SeqToSet(models)
    /\ last.items[1].cid \notin SeqToSet(last.pre.models)
    /\ Len(models) = 2

\* create without wait of an item whose id a member holds.
CreateOfHeldId ==
    /\ CreateOf(TRUE, FALSE)
    /\ IdHeld(CreatedEntity, last.pre.models, ents)

\* create of an item that fails validation, on a Collection with a member.
CreateRefused == CreateOf(FALSE, TRUE) /\ models # <<>> /\ EventsNamed("invalid") # {}

\* ------------------------------------------------------ the result of set
SetCall == last.op \in {"add", "set", "setJSON"}

\* C26: every element of what set or add returns is an Entity that is a member
\* of the Collection when the call returns, and an item whose construction
\* failed validation contributes no element.
C26_ResultAreMembers ==
    SetCall =>
        /\ \A i \in DOMAIN last.ret : last.ret[i].kind = "ref" /\ IsMember(last.ret[i].cid)
        /\ Len(last.ret) = Len(last.items) - Cardinality(Failing)

\* What the result holds instead: one element for each item, in input order;
\* `false` for an item whose construction failed, the item itself for one that
\* matches no member when add is disabled, and a member for every other.
ResultPerItem ==
    SetCall =>
        /\ Len(last.ret) = Len(last.items)
        /\ \A i \in DOMAIN last.ret :
              IF i \in Failing /\ last.options.add THEN last.ret[i].kind = "false"
              ELSE IF last.ret[i].kind = "ref" /\ IsMember(last.ret[i].cid) THEN TRUE
              ELSE ~last.options.add /\ last.ret[i] = last.items[i]

\* add of a valid new item and a failing one returns the Entity and `false`.
FalseInResult ==
    /\ last.op = "add"
    /\ Len(last.items) = 2
    /\ last.ret[1].kind = "ref"
    /\ last.ret[2].kind = "false"

\* set with add disabled returns the raw item it did not add.
RawInResult ==
    /\ last.op = "set"
    /\ ~last.options.add
    /\ \E i \in DOMAIN last.ret : last.ret[i].kind = "raw"

\* ------------------------------------------------------------ live reads
\* The last call of next() was the k-th successful one, or came after k
\* successful ones.
AdvancesBefore == iter.before

\* What the k-th successful call returns by kind: the Entity at position k of
\* models as the call found them, its id, or the pair of both.
ReadLive ==
    AdvancesBefore + 1 \in DOMAIN iter.list
    /\ iter.res = IteratorValue([ents |-> ents], iter.kind, iter.list[AdvancesBefore + 1])

\* C27: the iterator reads the Collection live: its k-th successful next()
\* returns what is at position k of models at the time of the call (the
\* Entity, its id or the pair, by kind), and a call reports done exactly when
\* k is not less than length at that moment; so a result that is not done
\* carries a member, also with add and remove calls between the advances.
C27_LiveRead ==
    iter.returned =>
        /\ iter.res.done <=> AdvancesBefore >= iter.seen
        /\ ~iter.res.done => ReadLive

\* C27, a call reporting done also whenever an earlier call has.
C27_LiveReadUntilDone ==
    iter.returned =>
        /\ iter.res.done <=> (iter.wasDone \/ AdvancesBefore >= iter.seen)
        /\ ~iter.res.done => ReadLive

\* After an advance and a change of the Collection, a call of entries()'s
\* iterator returns the pair for the Entity now at its position.
C27_Witness ==
    /\ iter.returned
    /\ iter.kind = ITERATOR_KEYSVALUES
    /\ ~iter.clean
    /\ iter.before >= 1
    /\ ~iter.res.done
    /\ iter.list = models
    /\ iter.before + 1 \in DOMAIN models
    /\ iter.res.value = <<modelId(ents[models[iter.before + 1]]), models[iter.before + 1]>>

====
